---- MODULE Spec2Model ----
(***************************************************************************)
(* The read-through metadata caches of the GitHub provider's Owner object: *)
(* the repository cache (cache_repos_v4.go), the environment cache         *)
(* (cache_envs_v4.go), the environment-secret cache                        *)
(* (cache_envs_secret_v4.go) and the team-repository cache                 *)
(* (cache_team_repo_v4.go).                                                *)
(*                                                                         *)
(* Handler goroutines run the cache functions concurrently.  Every         *)
(* statement that touches shared state (a field of Owner, a map, a         *)
(* sync.Once, the remote API) is one step of the goroutine that runs it.   *)
(***************************************************************************)
EXTENDS Integers, FiniteSets, Sequences, TLC

\* ------------------------------------------------------------------ bounds
NumThreads == 2
NumRepos == 2
NumEnvs == 2
NumSecrets == 1
NumTeams == 2
MaxEvicts == 1
MaxCalls == 3
MaxRemoteChanges == 1
NumPerms == 2
MaxUpdates == 2
MaxReads == 2

Threads == 1..NumThreads
Repos == 1..NumRepos
Envs == 1..NumEnvs
Secrets == 1..NumSecrets
Teams == 1..NumTeams
Perms == 1..NumPerms

\* ------------------------------------------------------------------ Go maps
\* A Go map value: nil, or a finite map kv from the keys present.
NilMap == [nil |-> TRUE, kv |-> <<>>]

EmptyMap == [nil |-> FALSE, kv |-> <<>>]

Has(m, k) == k \in DOMAIN m.kv

Put(m, k, v) ==
    [nil |-> FALSE,
     kv |-> [x \in (DOMAIN m.kv) \cup {k} |-> IF x = k THEN v ELSE m.kv[x]]]

\* m with every node of a query response inserted (the range loops of the loaders)
PutAll(m, nodes) ==
    [nil |-> FALSE,
     kv |-> [x \in (DOMAIN m.kv) \cup (DOMAIN nodes) |->
                IF x \in DOMAIN nodes THEN nodes[x] ELSE m.kv[x]]]

\* delete(m, k): a no-op on a missing key and on a nil map
Del(m, k) == [m EXCEPT !.kv = [x \in (DOMAIN m.kv) \ {k} |-> m.kv[x]]]

\* m[k] of a map of maps: the nil map when k is missing
Sub(m, k) == IF Has(m, k) THEN m.kv[k] ELSE NilMap

\* ------------------------------------------------------------------ remote
\* One answer of the remote to a list query "first: 100, after: cursor" over
\* the collection coll (key -> node): the nodes after the cursor up to a page
\* end the server chooses, whether nodes remain after it, and the end cursor.
\* A nil cursor is 0.
ListPages(coll, cursor) ==
    LET remaining == {k \in DOMAIN coll : k > cursor}
    IN  IF remaining = {}
        THEN {[nodes |-> <<>>, hasNext |-> FALSE, endCursor |-> cursor]}
        ELSE {[nodes |-> [k \in {x \in remaining : x <= e} |-> coll[k]],
               hasNext |-> (\E x \in remaining : x > e),
               endCursor |-> e] : e \in remaining}

VARIABLES
    pc,              \* the statement each goroutine is at
    loc,             \* each goroutine's arguments, locals and result
    crashed,         \* the process died (a panic or a fatal runtime error)
    repoCache,       \* Owner.repoCache
    repoCacheOnce,   \* Owner.repoCacheOnce
    remoteRepos,     \* the organisation's repositories at the remote
    envCache,        \* Owner.envCache: repo -> env -> entry
    envCacheOnce,    \* Owner.envCacheOnce
    remoteEnvs,      \* each repository's environments at the remote
    envSecretCache,      \* Owner.envSecretCache: repo -> env -> secret -> entry
    envSecretCacheOnce,  \* Owner.envSecretCacheOnce
    remoteSecrets,       \* each environment's secrets at the remote
    teamRepoCache,       \* Owner.teamRepoCache: team -> repo -> entry
    teamRepoCacheOnce,   \* Owner.teamRepoCacheOnce
    remoteTeamRepos,     \* each team's repositories at the remote
    listSeqs,        \* per scope, list-query sequences started (queries with a nil cursor)
    loadFailed,      \* the scopes whose latest bulk load returned an error
    loadSucceeded,   \* the scopes of which a bulk load has returned nil
    remoteTeamPerm,  \* the permission of each team-repository binding at the remote
    renamed,         \* the repository names whose repository was renamed at the remote
    evictClock,      \* evictions that have returned
    evictedAt,       \* per key, evictClock when its latest eviction returned
    calls,           \* calls of cache functions made so far
    remoteChanges    \* changes made at the remote so far

repoVars == <<repoCache, repoCacheOnce, remoteRepos>>
envVars == <<envCache, envCacheOnce, remoteEnvs>>
secretVars == <<envSecretCache, envSecretCacheOnce, remoteSecrets>>
teamVars == <<teamRepoCache, teamRepoCacheOnce, remoteTeamRepos>>
evictVars == <<evictClock, evictedAt>>
budgetVars == <<calls, remoteChanges>>
resVars == <<remoteTeamPerm, renamed>>

vars == <<pc, loc, crashed, repoVars, envVars, secretVars, teamVars,
          listSeqs, loadFailed, loadSucceeded, evictVars, budgetVars, resVars>>

\* A node of a query response, and the entry built from it.  at is the
\* value of evictClock when the remote answered.
NoNode == [Name |-> 0, at |-> 0]

\* A goroutine's locals before a call.
NoCall ==
    [op |-> "none", repo |-> 0, env |-> 0, secret |-> 0, team |-> 0,
     cursor |-> 0, page |-> <<>>, hasNext |-> FALSE,
     fetched |-> NoNode, ret |-> "none", val |-> NoNode,
     nList |-> 0, nPoint |-> 0, loadedAtCall |-> FALSE, hitAtCall |-> FALSE,
     missed |-> FALSE, existed |-> FALSE, racedLoad |-> FALSE, lastEvict |-> 0,
     got |-> {}, okAtCall |-> FALSE, kept |-> TRUE, waited |-> FALSE,
     handler |-> "none", hret |-> "none", id |-> TRUE, statePerm |-> 0,
     perm |-> 0, repoRet |-> "none", derr |-> FALSE, deleted |-> FALSE,
     updated |-> FALSE]

\* The Owner after construction: no cache allocated, no Once used.
InitOwner ==
    /\ pc = [t \in Threads |-> "idle"]
    /\ loc = [t \in Threads |-> NoCall]
    /\ crashed = FALSE
    /\ repoCache = NilMap
    /\ repoCacheOnce = "fresh"
    /\ envCache = NilMap
    /\ envCacheOnce = "fresh"
    /\ envSecretCache = NilMap
    /\ envSecretCacheOnce = "fresh"
    /\ teamRepoCache = NilMap
    /\ teamRepoCacheOnce = "fresh"
    /\ listSeqs = [repo |-> 0, env |-> [r \in Repos |-> 0],
                   secret |-> [s \in Repos \X Envs |-> 0],
                   team |-> [m \in Teams |-> 0]]
    /\ loadFailed = [repo |-> FALSE, env |-> {}, secret |-> {}, team |-> {}]
    /\ loadSucceeded = [repo |-> FALSE, env |-> {}, secret |-> {}, team |-> {}]
    /\ evictClock = 0
    /\ evictedAt = [team |-> [k \in Teams \X Repos |-> 0],
                    env |-> [k \in Repos \X Envs |-> 0]]
    /\ calls = 0
    /\ remoteChanges = 0

\* The remote when the provider starts: each collection empty or full.
InitRemote ==
    /\ remoteRepos \in {{}, Repos}
    /\ remoteEnvs \in {[r \in Repos |-> {}], [r \in Repos |-> Envs]}
    /\ remoteSecrets \in {[s \in Repos \X Envs |-> {}], [s \in Repos \X Envs |-> Secrets]}
    /\ remoteTeamRepos \in {[m \in Teams |-> {}], [m \in Teams |-> Repos]}
    /\ remoteTeamPerm = [k \in Teams \X Repos |-> 1]
    /\ renamed = {}

Init == InitOwner /\ InitRemote

\* The initial states of the specifications of one cache: the collections
\* of the other caches are full.
InitRepo == Init /\ remoteEnvs[1] # {} /\ remoteSecrets[<<1, 1>>] # {} /\ remoteTeamRepos[1] # {}

InitEnv == Init /\ remoteRepos # {} /\ remoteSecrets[<<1, 1>>] # {} /\ remoteTeamRepos[1] # {}

InitSecret == Init /\ remoteRepos # {} /\ remoteEnvs[1] # {} /\ remoteTeamRepos[1] # {}

InitTeam == Init /\ remoteRepos # {} /\ remoteEnvs[1] # {} /\ remoteSecrets[<<1, 1>>] # {}

\* a goroutine's locals when its call returns ret, val
Returned(l, ret, val) ==
    [l EXCEPT !.ret = ret, !.val = val, !.cursor = 0, !.hasNext = FALSE,
              !.page = <<>>, !.fetched = NoNode]

\* goroutine t may start a call
Free(t) ==
    /\ ~crashed /\ pc[t] \in {"idle", "done"} /\ calls < MaxCalls
    /\ loc[t].handler = "none" \/ loc[t].hret # "none"

\* the remote may change
RemoteMayChange == ~crashed /\ remoteChanges < MaxRemoteChanges

At(t, label) == ~crashed /\ pc[t] = label

\* sync.Once.Do: the body runs in the first caller, the callers that arrive
\* while it runs block until it has returned, later callers return at once.
OnceMayEnter(once) == once # "running"

\* a Once that runs its body in every caller that finds no body running
OnceRuns_EveryCaller(once) == TRUE

OnceRuns(once) == once = "fresh"

\* ------------------------------------------------------------------ repository cache
RemoteCreateRepo(r) ==
    /\ RemoteMayChange
    /\ remoteChanges' = remoteChanges + 1
    /\ r \notin remoteRepos
    /\ remoteRepos' = remoteRepos \cup {r}
    /\ UNCHANGED <<loadSucceeded, resVars, pc, loc, crashed, repoCache, repoCacheOnce, envVars, secretVars,
                   teamVars, listSeqs, loadFailed, evictVars, calls>>

RemoteDeleteRepo(r) ==
    /\ RemoteMayChange
    /\ remoteChanges' = remoteChanges + 1
    /\ r \in remoteRepos
    /\ remoteRepos' = remoteRepos \ {r}
    /\ UNCHANGED <<loadSucceeded, resVars, pc, loc, crashed, repoCache, repoCacheOnce, envVars, secretVars,
                   teamVars, listSeqs, loadFailed, evictVars, calls>>

RepoNode(r) == [Name |-> r, at |-> 0]

RemoteRepoColl == [r \in remoteRepos |-> RepoNode(r)]

\* GetRepoFromCache(ctx, name) called: if o.repoCache == nil { loadAllReposV4 }
GetRepoFromCache_Check(t, name) ==
    /\ Free(t)
    /\ calls' = calls + 1
    /\ loc' = [loc EXCEPT ![t] = [NoCall EXCEPT !.op = "GetRepoFromCache",
                                                 !.repo = name,
                                                 !.loadedAtCall = (repoCacheOnce = "done"),
                                                 !.okAtCall = loadSucceeded.repo,
                                                 !.hitAtCall = Has(repoCache, name)]]
    /\ pc' = [pc EXCEPT ![t] = IF repoCache.nil THEN "repo_once" ELSE "repo_lookup"]
    /\ UNCHANGED <<loadSucceeded, resVars, crashed, repoVars, envVars, secretVars, teamVars, listSeqs,
                   loadFailed, evictVars, remoteChanges>>

\* o.repoCacheOnce.Do(...): loadErr is a local of this call, so a caller whose
\* Do does not run the body returns nil.
loadAllReposV4_Once(t) ==
    /\ At(t, "repo_once")
    /\ OnceMayEnter(repoCacheOnce)
    /\ IF OnceRuns(repoCacheOnce)
       THEN /\ repoCacheOnce' = "running"
            /\ pc' = [pc EXCEPT ![t] = "repo_make"]
       ELSE /\ repoCacheOnce' = repoCacheOnce
            /\ pc' = [pc EXCEPT ![t] = "repo_lookup"]
    /\ loc' = [loc EXCEPT ![t].waited = ~OnceRuns(repoCacheOnce)]
    /\ UNCHANGED <<loadSucceeded, resVars, crashed, repoCache, remoteRepos, envVars, secretVars, teamVars,
                   listSeqs, loadFailed, evictVars, budgetVars>>

\* o.repoCache = make(map[string]*RepoV4Data)
loadAllReposV4_Make(t) ==
    /\ At(t, "repo_make")
    /\ repoCache' = EmptyMap
    /\ pc' = [pc EXCEPT ![t] = "repo_query"]
    /\ UNCHANGED <<loadSucceeded, resVars, loc, crashed, repoCacheOnce, remoteRepos, envVars, secretVars,
                   teamVars, listSeqs, loadFailed, evictVars, budgetVars>>

\* 1 when the query a loader is about to issue carries the nil cursor
FirstPage(t) == IF loc[t].cursor = 0 /\ loc[t].nList = 0 THEN 1 ELSE 0

\* err := o.v4client.Query(ctx, &query, variables), answered with a page
loadAllReposV4_Query(t) ==
    /\ At(t, "repo_query")
    /\ \E p \in ListPages(RemoteRepoColl, loc[t].cursor) :
          loc' = [loc EXCEPT ![t].page = p.nodes, ![t].hasNext = p.hasNext,
                             ![t].cursor = p.endCursor,
                             ![t].nList = loc[t].nList + 1]
    /\ listSeqs' = [listSeqs EXCEPT !.repo = @ + FirstPage(t)]
    /\ pc' = [pc EXCEPT ![t] = "repo_insert"]
    /\ UNCHANGED <<loadSucceeded, resVars, crashed, repoVars, envVars, secretVars, teamVars, loadFailed,
                   evictVars, budgetVars>>

\* the same query failing: loadErr = err; return.  The Once is done, and
\* GetRepoFromCache returns the error.
loadAllReposV4_QueryFails(t) ==
    /\ At(t, "repo_query")
    /\ loc' = [loc EXCEPT ![t] = Returned([@ EXCEPT !.nList = @ + 1], "loaderr", NoNode)]
    /\ listSeqs' = [listSeqs EXCEPT !.repo = @ + FirstPage(t)]
    /\ loadFailed' = [loadFailed EXCEPT !.repo = TRUE]
    /\ repoCacheOnce' = "done"
    /\ pc' = [pc EXCEPT ![t] = "done"]
    /\ UNCHANGED <<loadSucceeded, resVars, crashed, repoCache, remoteRepos, envVars, secretVars, teamVars,
                   evictVars, budgetVars>>

\* for _, r := range Nodes { o.repoCache[r.Name] = ... }; then the next page,
\* or the end of the Once body
loadAllReposV4_Insert(t) ==
    /\ At(t, "repo_insert")
    /\ repoCache' = PutAll(repoCache, loc[t].page)
    /\ loc' = [loc EXCEPT ![t].page = <<>>, ![t].got = @ \cup DOMAIN loc[t].page]
    /\ IF loc[t].hasNext
       THEN /\ pc' = [pc EXCEPT ![t] = "repo_query"]
            /\ repoCacheOnce' = repoCacheOnce
            /\ loadSucceeded' = loadSucceeded
       ELSE /\ pc' = [pc EXCEPT ![t] = "repo_lookup"]
            /\ repoCacheOnce' = "done"
            /\ loadSucceeded' = [loadSucceeded EXCEPT !.repo = TRUE]
    /\ UNCHANGED <<resVars, crashed, remoteRepos, envVars, secretVars, teamVars, listSeqs,
                   loadFailed, evictVars, budgetVars>>

\* repo, ok := o.repoCache[name]
GetRepoFromCache_Lookup(t) ==
    /\ At(t, "repo_lookup")
    /\ IF Has(repoCache, loc[t].repo)
       THEN /\ pc' = [pc EXCEPT ![t] = "done"]
            /\ loc' = [loc EXCEPT ![t] = Returned([@ EXCEPT !.racedLoad = (repoCacheOnce = "running"),
                                                            !.got = {}],
                                                  "entry", repoCache.kv[loc[t].repo])]
       ELSE /\ pc' = [pc EXCEPT ![t] = "repo_point"]
            /\ loc' = [loc EXCEPT ![t].missed = TRUE, ![t].got = {},
                                  ![t].racedLoad = (repoCacheOnce = "running")]
    /\ UNCHANGED <<loadSucceeded, resVars, crashed, repoVars, envVars, secretVars, teamVars, listSeqs,
                   loadFailed, evictVars, budgetVars>>

\* the point query repository(owner, name) answered with the repository
GetRepoFromCache_PointQuery(t) ==
    /\ At(t, "repo_point")
    /\ loc[t].repo \in remoteRepos
    /\ loc' = [loc EXCEPT ![t].nPoint = loc[t].nPoint + 1,
                          ![t].existed = TRUE,
                          ![t].fetched = RepoNode(loc[t].repo)]
    /\ pc' = [pc EXCEPT ![t] = "repo_pinsert"]
    /\ UNCHANGED <<loadSucceeded, resVars, crashed, repoVars, envVars, secretVars, teamVars, listSeqs,
                   loadFailed, evictVars, budgetVars>>

\* the point query failing, the repository missing ("notfound") or the remote
\* failing ("transient"): return nil, fmt.Errorf("failed to fetch repository")
GetRepoFromCache_PointQueryFails(t) ==
    /\ At(t, "repo_point")
    /\ loc' = [loc EXCEPT ![t] = Returned([@ EXCEPT !.nPoint = @ + 1,
                                                    !.existed = (loc[t].repo \in remoteRepos)],
                                          IF loc[t].repo \in remoteRepos
                                          THEN "transient" ELSE "notfound", NoNode)]
    /\ pc' = [pc EXCEPT ![t] = "done"]
    /\ UNCHANGED <<loadSucceeded, resVars, crashed, repoVars, envVars, secretVars, teamVars, listSeqs,
                   loadFailed, evictVars, budgetVars>>

\* the fallback returning the fetched repository without storing it
GetRepoFromCache_PointInsert_NoStore(t) ==
    /\ At(t, "repo_pinsert")
    /\ loc' = [loc EXCEPT ![t] = Returned(@, "entry", loc[t].fetched)]
    /\ pc' = [pc EXCEPT ![t] = "done"]
    /\ UNCHANGED <<loadSucceeded, resVars, crashed, repoVars, envVars, secretVars, teamVars,
                   listSeqs, loadFailed, evictVars, budgetVars>>

\* o.repoCache[name] = repo; return repo, nil
GetRepoFromCache_PointInsert(t) ==
    /\ At(t, "repo_pinsert")
    /\ repoCache' = Put(repoCache, loc[t].repo, loc[t].fetched)
    /\ loc' = [loc EXCEPT ![t] = Returned(@, "entry", loc[t].fetched)]
    /\ pc' = [pc EXCEPT ![t] = "done"]
    /\ UNCHANGED <<loadSucceeded, resVars, crashed, repoCacheOnce, remoteRepos, envVars, secretVars, teamVars,
                   listSeqs, loadFailed, evictVars, budgetVars>>

\* ------------------------------------------------------------------ environment cache
RemoteCreateEnv(r, e) ==
    /\ RemoteMayChange
    /\ remoteChanges' = remoteChanges + 1
    /\ e \notin remoteEnvs[r]
    /\ remoteEnvs' = [remoteEnvs EXCEPT ![r] = @ \cup {e}]
    /\ UNCHANGED <<loadSucceeded, resVars, pc, loc, crashed, repoVars, envCache, envCacheOnce, secretVars,
                   teamVars, listSeqs, loadFailed, evictVars, calls>>

RemoteDeleteEnv(r, e) ==
    /\ RemoteMayChange
    /\ remoteChanges' = remoteChanges + 1
    /\ e \in remoteEnvs[r]
    /\ remoteEnvs' = [remoteEnvs EXCEPT ![r] = @ \ {e}]
    /\ UNCHANGED <<loadSucceeded, resVars, pc, loc, crashed, repoVars, envCache, envCacheOnce, secretVars,
                   teamVars, listSeqs, loadFailed, evictVars, calls>>

\* a node of the bulk query: every environment has wait timer 1 at the remote
EnvNode(e) == [Name |-> e, WaitTimer |-> 1, at |-> evictClock]

RemoteEnvColl(r) == [e \in remoteEnvs[r] |-> EnvNode(e)]

\* a bulk load of repository r's environments has marked the scope and not returned
EnvLoadInFlight(r) ==
    \E u \in Threads : /\ loc[u].op = "GetEnvironmentFromCache"
                       /\ loc[u].repo = r
                       /\ pc[u] \in {"env_query", "env_insert"}

\* GetEnvironmentFromCache(ctx, repoName, envName) called:
\* if o.envCache == nil || o.envCache[repoName] == nil { loadAllEnvironmentsV4 }
GetEnvironmentFromCache_Check(t, repoName, envName) ==
    /\ Free(t)
    /\ calls' = calls + 1
    /\ pc' = [pc EXCEPT ![t] = IF envCache.nil \/ Sub(envCache, repoName).nil
                               THEN "env_once" ELSE "env_lookup"]
    /\ loc' = [loc EXCEPT ![t] = [NoCall EXCEPT !.op = "GetEnvironmentFromCache",
                                                 !.repo = repoName,
                                                 !.env = envName,
                                                 !.loadedAtCall = Has(envCache, repoName),
                                                 !.okAtCall = (repoName \in loadSucceeded.env),
                                                 !.hitAtCall = Has(Sub(envCache, repoName), envName),
                                                 !.lastEvict = evictedAt.env[<<repoName, envName>>]]]
    /\ UNCHANGED <<loadSucceeded, resVars, crashed, repoVars, envVars, secretVars, teamVars, listSeqs,
                   loadFailed, evictVars, remoteChanges>>

\* o.envCacheOnce.Do(func() { if o.envCache == nil { o.envCache = make(...) } })
loadAllEnvironmentsV4_Once(t) ==
    /\ At(t, "env_once")
    /\ OnceMayEnter(envCacheOnce)
    /\ IF OnceRuns(envCacheOnce)
       THEN /\ envCacheOnce' = "done"
            /\ envCache' = IF envCache.nil THEN EmptyMap ELSE envCache
       ELSE UNCHANGED <<envCacheOnce, envCache>>
    /\ pc' = [pc EXCEPT ![t] = "env_loaded"]
    /\ UNCHANGED <<loadSucceeded, resVars, loc, crashed, repoVars, remoteEnvs, secretVars, teamVars, listSeqs,
                   loadFailed, evictVars, budgetVars>>

\* if _, ok := o.envCache[repoName]; ok { return nil }
loadAllEnvironmentsV4_Loaded(t) ==
    /\ At(t, "env_loaded")
    /\ pc' = [pc EXCEPT ![t] = IF Has(envCache, loc[t].repo)
                               THEN "env_lookup" ELSE "env_mark"]
    /\ UNCHANGED <<loadSucceeded, resVars, loc, crashed, repoVars, envVars, secretVars, teamVars, listSeqs,
                   loadFailed, evictVars, budgetVars>>

\* o.envCache[repoName] = make(map[string]*EnvV4Data)
loadAllEnvironmentsV4_Mark(t) ==
    /\ At(t, "env_mark")
    /\ envCache' = Put(envCache, loc[t].repo, EmptyMap)
    /\ pc' = [pc EXCEPT ![t] = "env_query"]
    /\ UNCHANGED <<loadSucceeded, resVars, loc, crashed, repoVars, envCacheOnce, remoteEnvs, secretVars,
                   teamVars, listSeqs, loadFailed, evictVars, budgetVars>>

\* if err := o.v4client.Query(ctx, &query, variables), answered with a page
loadAllEnvironmentsV4_Query(t) ==
    /\ At(t, "env_query")
    /\ \E p \in ListPages(RemoteEnvColl(loc[t].repo), loc[t].cursor) :
          loc' = [loc EXCEPT ![t].page = p.nodes, ![t].hasNext = p.hasNext,
                             ![t].cursor = p.endCursor,
                             ![t].nList = loc[t].nList + 1]
    /\ listSeqs' = [listSeqs EXCEPT !.env[loc[t].repo] = @ + FirstPage(t)]
    /\ pc' = [pc EXCEPT ![t] = "env_insert"]
    /\ UNCHANGED <<loadSucceeded, resVars, crashed, repoVars, envVars, secretVars, teamVars, loadFailed,
                   evictVars, budgetVars>>

\* the same query failing: return fmt.Errorf("failed to load environments ...")
loadAllEnvironmentsV4_QueryFails(t) ==
    /\ At(t, "env_query")
    /\ loc' = [loc EXCEPT ![t] = Returned([@ EXCEPT !.nList = @ + 1,
                                                    !.kept = loc[t].got \subseteq
                                                             DOMAIN Sub(envCache, loc[t].repo).kv],
                                          "loaderr", NoNode)]
    /\ listSeqs' = [listSeqs EXCEPT !.env[loc[t].repo] = @ + FirstPage(t)]
    /\ loadFailed' = [loadFailed EXCEPT !.env = @ \cup {loc[t].repo}]
    /\ pc' = [pc EXCEPT ![t] = "done"]
    /\ UNCHANGED <<loadSucceeded, resVars, crashed, repoVars, envVars, secretVars, teamVars, evictVars, budgetVars>>

\* for _, e := range Nodes { o.envCache[repoName][e.Name] = ... }: an
\* assignment to an entry of a nil map panics.  Then the next page, or return nil.
loadAllEnvironmentsV4_Insert(t) ==
    /\ At(t, "env_insert")
    /\ IF Sub(envCache, loc[t].repo).nil /\ loc[t].page # <<>>
       THEN /\ crashed' = TRUE
            /\ UNCHANGED <<pc, loc, envCache, loadFailed, loadSucceeded>>
       ELSE /\ crashed' = crashed
            /\ envCache' = IF loc[t].page = <<>> THEN envCache
                           ELSE Put(envCache, loc[t].repo,
                                    PutAll(Sub(envCache, loc[t].repo), loc[t].page))
            /\ loc' = [loc EXCEPT ![t].page = <<>>, ![t].got = @ \cup DOMAIN loc[t].page,
                                  ![t].kept = (loc[t].got \cup DOMAIN loc[t].page) \subseteq
                                              DOMAIN Sub(envCache', loc[t].repo).kv]
            /\ pc' = [pc EXCEPT ![t] = IF loc[t].hasNext THEN "env_query" ELSE "env_lookup"]
            /\ loadFailed' = IF loc[t].hasNext THEN loadFailed
                             ELSE [loadFailed EXCEPT !.env = @ \ {loc[t].repo}]
            /\ loadSucceeded' = IF loc[t].hasNext THEN loadSucceeded
                                ELSE [loadSucceeded EXCEPT !.env = @ \cup {loc[t].repo}]
    /\ UNCHANGED <<resVars, repoVars, envCacheOnce, remoteEnvs, secretVars, teamVars, listSeqs,
                   evictVars, budgetVars>>

\* if env, ok := o.envCache[repoName][envName]; ok { return env, nil }
\* return nil, fmt.Errorf("environment %s not found in repo %s")
GetEnvironmentFromCache_Lookup(t) ==
    /\ At(t, "env_lookup")
    /\ IF Has(Sub(envCache, loc[t].repo), loc[t].env)
       THEN loc' = [loc EXCEPT ![t] = Returned([@ EXCEPT !.got = {}, !.racedLoad = EnvLoadInFlight(loc[t].repo)],
                                               "entry", Sub(envCache, loc[t].repo).kv[loc[t].env])]
       ELSE loc' = [loc EXCEPT ![t] = Returned([@ EXCEPT !.got = {}, !.racedLoad = EnvLoadInFlight(loc[t].repo),
                                                         !.existed = (loc[t].env \in remoteEnvs[loc[t].repo]),
                                                         !.missed = TRUE],
                                               "notfound", NoNode)]
    /\ pc' = [pc EXCEPT ![t] = "done"]
    /\ UNCHANGED <<loadSucceeded, resVars, crashed, repoVars, envVars, secretVars, teamVars, listSeqs,
                   loadFailed, evictVars, budgetVars>>

\* ------------------------------------------------------------------ environment-secret cache
RemoteCreateSecret(r, e, x) ==
    /\ RemoteMayChange
    /\ remoteChanges' = remoteChanges + 1
    /\ x \notin remoteSecrets[<<r, e>>]
    /\ remoteSecrets' = [remoteSecrets EXCEPT ![<<r, e>>] = @ \cup {x}]
    /\ UNCHANGED <<loadSucceeded, resVars, pc, loc, crashed, repoVars, envVars, envSecretCache,
                   envSecretCacheOnce, teamVars, listSeqs, loadFailed, evictVars, calls>>

RemoteDeleteSecret(r, e, x) ==
    /\ RemoteMayChange
    /\ remoteChanges' = remoteChanges + 1
    /\ x \in remoteSecrets[<<r, e>>]
    /\ remoteSecrets' = [remoteSecrets EXCEPT ![<<r, e>>] = @ \ {x}]
    /\ UNCHANGED <<loadSucceeded, resVars, pc, loc, crashed, repoVars, envVars, envSecretCache,
                   envSecretCacheOnce, teamVars, listSeqs, loadFailed, evictVars, calls>>

SecretNode(x) == [Name |-> x, at |-> evictClock]

RemoteSecretColl(r, e) == [x \in remoteSecrets[<<r, e>>] |-> SecretNode(x)]

\* o.envSecretCache[repoName][envName]
SecretScope(r, e) == Sub(Sub(envSecretCache, r), e)

\* a bulk load of the secrets of (r, e) has marked the scope and not returned
SecretLoadInFlight(r, e) ==
    \E u \in Threads : /\ loc[u].op = "GetEnvSecretFromCache"
                       /\ loc[u].repo = r /\ loc[u].env = e
                       /\ pc[u] \in {"sec_query", "sec_insert"}

\* GetEnvSecretFromCache(ctx, repoName, envName, secretName) called:
\* if o.envSecretCache == nil || o.envSecretCache[repoName] == nil ||
\*    o.envSecretCache[repoName][envName] == nil { loadAllEnvSecretsV4 }
GetEnvSecretFromCache_Check(t, repoName, envName, secretName) ==
    /\ Free(t)
    /\ calls' = calls + 1
    /\ pc' = [pc EXCEPT ![t] = IF SecretScope(repoName, envName).nil
                               THEN "sec_once" ELSE "sec_lookup"]
    /\ loc' = [loc EXCEPT ![t] = [NoCall EXCEPT !.op = "GetEnvSecretFromCache",
                                                 !.repo = repoName,
                                                 !.env = envName,
                                                 !.secret = secretName,
                                                 !.loadedAtCall = ~SecretScope(repoName, envName).nil,
                                                 !.okAtCall = (<<repoName, envName>> \in loadSucceeded.secret),
                                                 !.hitAtCall = Has(SecretScope(repoName, envName), secretName)]]
    /\ UNCHANGED <<loadSucceeded, resVars, crashed, repoVars, envVars, secretVars, teamVars, listSeqs,
                   loadFailed, evictVars, remoteChanges>>

\* o.envSecretCacheOnce.Do(func() { if o.envSecretCache == nil { make } })
loadAllEnvSecretsV4_Once(t) ==
    /\ At(t, "sec_once")
    /\ OnceMayEnter(envSecretCacheOnce)
    /\ IF OnceRuns(envSecretCacheOnce)
       THEN /\ envSecretCacheOnce' = "done"
            /\ envSecretCache' = IF envSecretCache.nil THEN EmptyMap ELSE envSecretCache
       ELSE UNCHANGED <<envSecretCacheOnce, envSecretCache>>
    /\ pc' = [pc EXCEPT ![t] = "sec_repo"]
    /\ UNCHANGED <<loadSucceeded, resVars, loc, crashed, repoVars, envVars, remoteSecrets, teamVars, listSeqs,
                   loadFailed, evictVars, budgetVars>>

\* if _, ok := o.envSecretCache[repoName]; !ok
loadAllEnvSecretsV4_Repo(t) ==
    /\ At(t, "sec_repo")
    /\ pc' = [pc EXCEPT ![t] = IF Has(envSecretCache, loc[t].repo)
                               THEN "sec_loaded" ELSE "sec_repomake"]
    /\ UNCHANGED <<loadSucceeded, resVars, loc, crashed, repoVars, envVars, secretVars, teamVars, listSeqs,
                   loadFailed, evictVars, budgetVars>>

\* o.envSecretCache[repoName] = make(map[string]map[string]*EnvSecretV4Data)
loadAllEnvSecretsV4_RepoMake(t) ==
    /\ At(t, "sec_repomake")
    /\ envSecretCache' = Put(envSecretCache, loc[t].repo, EmptyMap)
    /\ pc' = [pc EXCEPT ![t] = "sec_loaded"]
    /\ UNCHANGED <<loadSucceeded, resVars, loc, crashed, repoVars, envVars, envSecretCacheOnce, remoteSecrets,
                   teamVars, listSeqs, loadFailed, evictVars, budgetVars>>

\* if _, ok := o.envSecretCache[repoName][envName]; ok { return nil }
loadAllEnvSecretsV4_Loaded(t) ==
    /\ At(t, "sec_loaded")
    /\ pc' = [pc EXCEPT ![t] = IF Has(Sub(envSecretCache, loc[t].repo), loc[t].env)
                               THEN "sec_lookup" ELSE "sec_mark"]
    /\ UNCHANGED <<loadSucceeded, resVars, loc, crashed, repoVars, envVars, secretVars, teamVars, listSeqs,
                   loadFailed, evictVars, budgetVars>>

\* o.envSecretCache[repoName][envName] = make(map[string]*EnvSecretV4Data)
loadAllEnvSecretsV4_Mark(t) ==
    /\ At(t, "sec_mark")
    /\ IF Sub(envSecretCache, loc[t].repo).nil
       THEN /\ crashed' = TRUE
            /\ UNCHANGED <<pc, envSecretCache>>
       ELSE /\ crashed' = crashed
            /\ envSecretCache' = Put(envSecretCache, loc[t].repo,
                                     Put(Sub(envSecretCache, loc[t].repo), loc[t].env, EmptyMap))
            /\ pc' = [pc EXCEPT ![t] = "sec_query"]
    /\ UNCHANGED <<loadSucceeded, resVars, loc, repoVars, envVars, envSecretCacheOnce, remoteSecrets, teamVars,
                   listSeqs, loadFailed, evictVars, budgetVars>>

\* if err := o.v4client.Query(ctx, &query, variables), answered with a page
loadAllEnvSecretsV4_Query(t) ==
    /\ At(t, "sec_query")
    /\ \E p \in ListPages(RemoteSecretColl(loc[t].repo, loc[t].env), loc[t].cursor) :
          loc' = [loc EXCEPT ![t].page = p.nodes, ![t].hasNext = p.hasNext,
                             ![t].cursor = p.endCursor,
                             ![t].nList = loc[t].nList + 1]
    /\ listSeqs' = [listSeqs EXCEPT !.secret[<<loc[t].repo, loc[t].env>>] = @ + FirstPage(t)]
    /\ pc' = [pc EXCEPT ![t] = "sec_insert"]
    /\ UNCHANGED <<loadSucceeded, resVars, crashed, repoVars, envVars, secretVars, teamVars, loadFailed,
                   evictVars, budgetVars>>

\* the same query failing: return fmt.Errorf("failed to load environment secrets ...")
loadAllEnvSecretsV4_QueryFails(t) ==
    /\ At(t, "sec_query")
    /\ loc' = [loc EXCEPT ![t] = Returned([@ EXCEPT !.nList = @ + 1], "loaderr", NoNode)]
    /\ listSeqs' = [listSeqs EXCEPT !.secret[<<loc[t].repo, loc[t].env>>] = @ + FirstPage(t)]
    /\ loadFailed' = [loadFailed EXCEPT !.secret = @ \cup {<<loc[t].repo, loc[t].env>>}]
    /\ pc' = [pc EXCEPT ![t] = "done"]
    /\ UNCHANGED <<loadSucceeded, resVars, crashed, repoVars, envVars, secretVars, teamVars, evictVars,
                   budgetVars>>

\* for _, s := range Nodes { o.envSecretCache[repoName][envName][s.Name] = ... }:
\* an assignment to an entry of a nil map panics.  Then the next page, or return nil.
loadAllEnvSecretsV4_Insert(t) ==
    /\ At(t, "sec_insert")
    /\ IF SecretScope(loc[t].repo, loc[t].env).nil /\ loc[t].page # <<>>
       THEN /\ crashed' = TRUE
            /\ UNCHANGED <<pc, loc, envSecretCache, loadFailed, loadSucceeded>>
       ELSE /\ crashed' = crashed
            /\ envSecretCache' =
                 IF loc[t].page = <<>> THEN envSecretCache
                 ELSE Put(envSecretCache, loc[t].repo,
                          Put(Sub(envSecretCache, loc[t].repo), loc[t].env,
                              PutAll(SecretScope(loc[t].repo, loc[t].env), loc[t].page)))
            /\ loc' = [loc EXCEPT ![t].page = <<>>, ![t].got = @ \cup DOMAIN loc[t].page]
            /\ pc' = [pc EXCEPT ![t] = IF loc[t].hasNext THEN "sec_query" ELSE "sec_lookup"]
            /\ loadFailed' = IF loc[t].hasNext THEN loadFailed
                             ELSE [loadFailed EXCEPT !.secret = @ \ {<<loc[t].repo, loc[t].env>>}]
            /\ loadSucceeded' = IF loc[t].hasNext THEN loadSucceeded
                                ELSE [loadSucceeded EXCEPT !.secret = @ \cup {<<loc[t].repo, loc[t].env>>}]
    /\ UNCHANGED <<resVars, repoVars, envVars, envSecretCacheOnce, remoteSecrets, teamVars,
                   listSeqs, evictVars, budgetVars>>

\* if s, ok := o.envSecretCache[repoName][envName][secretName]; ok { return s, nil }
\* return nil, fmt.Errorf("environment secret %s not found in repo %s/%s")
GetEnvSecretFromCache_Lookup(t) ==
    /\ At(t, "sec_lookup")
    /\ LET scope == SecretScope(loc[t].repo, loc[t].env)
           raced == SecretLoadInFlight(loc[t].repo, loc[t].env)
       IN  IF Has(scope, loc[t].secret)
           THEN loc' = [loc EXCEPT ![t] = Returned([@ EXCEPT !.got = {}, !.racedLoad = raced],
                                                   "entry", scope.kv[loc[t].secret])]
           ELSE loc' = [loc EXCEPT ![t] = Returned([@ EXCEPT !.got = {}, !.racedLoad = raced,
                                                             !.existed = (loc[t].secret \in remoteSecrets[<<loc[t].repo, loc[t].env>>]),
                                                             !.missed = TRUE],
                                                   "notfound", NoNode)]
    /\ pc' = [pc EXCEPT ![t] = "done"]
    /\ UNCHANGED <<loadSucceeded, resVars, crashed, repoVars, envVars, secretVars, teamVars, listSeqs,
                   loadFailed, evictVars, budgetVars>>

\* ------------------------------------------------------------------ team-repository cache
RemoteCreateTeamRepo(m, r) ==
    /\ RemoteMayChange
    /\ remoteChanges' = remoteChanges + 1
    /\ r \notin remoteTeamRepos[m]
    /\ remoteTeamRepos' = [remoteTeamRepos EXCEPT ![m] = @ \cup {r}]
    /\ UNCHANGED <<loadSucceeded, resVars, pc, loc, crashed, repoVars, envVars, secretVars, teamRepoCache,
                   teamRepoCacheOnce, listSeqs, loadFailed, evictVars, calls>>

RemoteDeleteTeamRepo(m, r) ==
    /\ RemoteMayChange
    /\ remoteChanges' = remoteChanges + 1
    /\ r \in remoteTeamRepos[m]
    /\ remoteTeamRepos' = [remoteTeamRepos EXCEPT ![m] = @ \ {r}]
    /\ UNCHANGED <<loadSucceeded, resVars, pc, loc, crashed, repoVars, envVars, secretVars, teamRepoCache,
                   teamRepoCacheOnce, listSeqs, loadFailed, evictVars, calls>>

TeamRepoNode(m, r) ==
    [Name |-> r, Permission |-> remoteTeamPerm[<<m, r>>], at |-> evictClock]

\* the list query names a renamed repository by its new name, which is no
\* key of this model
RemoteTeamRepoColl(m) == [r \in remoteTeamRepos[m] \ renamed |-> TeamRepoNode(m, r)]

\* a bulk load of team m's repositories has marked the scope and not returned
TeamLoadInFlight(m) ==
    \E u \in Threads : /\ loc[u].op = "GetTeamRepoFromCache"
                       /\ loc[u].team = m
                       /\ pc[u] \in {"team_query", "team_insert"}

\* GetTeamRepoFromCache(ctx, teamID, repoName) called:
\* if o.teamRepoCache == nil || o.teamRepoCache[teamID] == nil { loadAllTeamReposV4 }
GetTeamRepoFromCache_Check(t, teamID, repoName) ==
    /\ Free(t)
    /\ calls' = calls + 1
    /\ pc' = [pc EXCEPT ![t] = IF teamRepoCache.nil \/ Sub(teamRepoCache, teamID).nil
                               THEN "team_once" ELSE "team_lookup"]
    /\ loc' = [loc EXCEPT ![t] = [NoCall EXCEPT !.op = "GetTeamRepoFromCache",
                                                 !.team = teamID,
                                                 !.repo = repoName,
                                                 !.loadedAtCall = Has(teamRepoCache, teamID),
                                                 !.okAtCall = (teamID \in loadSucceeded.team),
                                                 !.hitAtCall = Has(Sub(teamRepoCache, teamID), repoName),
                                                 !.lastEvict = evictedAt.team[<<teamID, repoName>>]]]
    /\ UNCHANGED <<loadSucceeded, resVars, crashed, repoVars, envVars, secretVars, teamVars, listSeqs,
                   loadFailed, evictVars, remoteChanges>>

\* o.teamRepoCacheOnce.Do(func() { if o.teamRepoCache == nil { make } })
loadAllTeamReposV4_Once(t) ==
    /\ At(t, "team_once")
    /\ OnceMayEnter(teamRepoCacheOnce)
    /\ IF OnceRuns(teamRepoCacheOnce)
       THEN /\ teamRepoCacheOnce' = "done"
            /\ teamRepoCache' = IF teamRepoCache.nil THEN EmptyMap ELSE teamRepoCache
       ELSE UNCHANGED <<teamRepoCacheOnce, teamRepoCache>>
    /\ pc' = [pc EXCEPT ![t] = "team_loaded"]
    /\ UNCHANGED <<loadSucceeded, resVars, loc, crashed, repoVars, envVars, secretVars, remoteTeamRepos,
                   listSeqs, loadFailed, evictVars, budgetVars>>

\* if _, ok := o.teamRepoCache[teamID]; ok { return nil }
loadAllTeamReposV4_Loaded(t) ==
    /\ At(t, "team_loaded")
    /\ pc' = [pc EXCEPT ![t] = IF Has(teamRepoCache, loc[t].team)
                               THEN "team_lookup" ELSE "team_mark"]
    /\ UNCHANGED <<loadSucceeded, resVars, loc, crashed, repoVars, envVars, secretVars, teamVars, listSeqs,
                   loadFailed, evictVars, budgetVars>>

\* o.teamRepoCache[teamID] = make(map[string]*TeamRepoV4Data)
loadAllTeamReposV4_Mark(t) ==
    /\ At(t, "team_mark")
    /\ teamRepoCache' = Put(teamRepoCache, loc[t].team, EmptyMap)
    /\ pc' = [pc EXCEPT ![t] = "team_query"]
    /\ UNCHANGED <<loadSucceeded, resVars, loc, crashed, repoVars, envVars, secretVars, teamRepoCacheOnce,
                   remoteTeamRepos, listSeqs, loadFailed, evictVars, budgetVars>>

\* if err := o.v4client.Query(ctx, &query, variables), answered with a page
loadAllTeamReposV4_Query(t) ==
    /\ At(t, "team_query")
    /\ \E p \in ListPages(RemoteTeamRepoColl(loc[t].team), loc[t].cursor) :
          loc' = [loc EXCEPT ![t].page = p.nodes, ![t].hasNext = p.hasNext,
                             ![t].cursor = p.endCursor,
                             ![t].nList = loc[t].nList + 1]
    /\ listSeqs' = [listSeqs EXCEPT !.team[loc[t].team] = @ + FirstPage(t)]
    /\ pc' = [pc EXCEPT ![t] = "team_insert"]
    /\ UNCHANGED <<loadSucceeded, resVars, crashed, repoVars, envVars, secretVars, teamVars, loadFailed,
                   evictVars, budgetVars>>

\* the same query failing: return fmt.Errorf("failed to load repositories for team ...")
loadAllTeamReposV4_QueryFails(t) ==
    /\ At(t, "team_query")
    /\ loc' = [loc EXCEPT ![t] = Returned([@ EXCEPT !.nList = @ + 1], "loaderr", NoNode)]
    /\ listSeqs' = [listSeqs EXCEPT !.team[loc[t].team] = @ + FirstPage(t)]
    /\ loadFailed' = [loadFailed EXCEPT !.team = @ \cup {loc[t].team}]
    /\ pc' = [pc EXCEPT ![t] = "done"]
    /\ UNCHANGED <<loadSucceeded, resVars, crashed, repoVars, envVars, secretVars, teamVars, evictVars, budgetVars>>

\* for _, r := range Nodes { o.teamRepoCache[teamID][r.Name] = ... }: an
\* assignment to an entry of a nil map panics.  Then the next page, or return nil.
loadAllTeamReposV4_Insert(t) ==
    /\ At(t, "team_insert")
    /\ IF Sub(teamRepoCache, loc[t].team).nil /\ loc[t].page # <<>>
       THEN /\ crashed' = TRUE
            /\ UNCHANGED <<pc, loc, teamRepoCache, loadFailed, loadSucceeded>>
       ELSE /\ crashed' = crashed
            /\ teamRepoCache' = IF loc[t].page = <<>> THEN teamRepoCache
                                ELSE Put(teamRepoCache, loc[t].team,
                                         PutAll(Sub(teamRepoCache, loc[t].team), loc[t].page))
            /\ loc' = [loc EXCEPT ![t].page = <<>>, ![t].got = @ \cup DOMAIN loc[t].page]
            /\ pc' = [pc EXCEPT ![t] = IF loc[t].hasNext THEN "team_query" ELSE "team_lookup"]
            /\ loadFailed' = IF loc[t].hasNext THEN loadFailed
                             ELSE [loadFailed EXCEPT !.team = @ \ {loc[t].team}]
            /\ loadSucceeded' = IF loc[t].hasNext THEN loadSucceeded
                                ELSE [loadSucceeded EXCEPT !.team = @ \cup {loc[t].team}]
    /\ UNCHANGED <<resVars, repoVars, envVars, secretVars, teamRepoCacheOnce, remoteTeamRepos,
                   listSeqs, evictVars, budgetVars>>

\* if repo, ok := o.teamRepoCache[teamID][repoName]; ok { return repo, nil }
\* return nil, fmt.Errorf("team %d does not have access to repo %s")
GetTeamRepoFromCache_Lookup(t) ==
    /\ At(t, "team_lookup")
    /\ IF Has(Sub(teamRepoCache, loc[t].team), loc[t].repo)
       THEN loc' = [loc EXCEPT ![t] = Returned([@ EXCEPT !.got = {}, !.racedLoad = TeamLoadInFlight(loc[t].team)],
                                               "entry", Sub(teamRepoCache, loc[t].team).kv[loc[t].repo])]
       ELSE loc' = [loc EXCEPT ![t] = Returned([@ EXCEPT !.got = {}, !.racedLoad = TeamLoadInFlight(loc[t].team),
                                                         !.existed = (loc[t].repo \in remoteTeamRepos[loc[t].team]),
                                                         !.missed = TRUE],
                                               "notfound", NoNode)]
    /\ pc' = [pc EXCEPT ![t] = "done"]
    /\ UNCHANGED <<loadSucceeded, resVars, crashed, repoVars, envVars, secretVars, teamVars, listSeqs,
                   loadFailed, evictVars, budgetVars>>

\* RemoveTeamRepoFromCache(teamID, repoName) called
RemoveTeamRepoFromCache_Call(t, teamID, repoName) ==
    /\ Free(t)
    /\ evictClock < MaxEvicts
    /\ calls' = calls + 1
    /\ pc' = [pc EXCEPT ![t] = "team_evict"]
    /\ loc' = [loc EXCEPT ![t] = [NoCall EXCEPT !.op = "RemoveTeamRepoFromCache",
                                                 !.team = teamID,
                                                 !.repo = repoName]]
    /\ UNCHANGED <<loadSucceeded, resVars, crashed, repoVars, envVars, secretVars, teamVars, listSeqs,
                   loadFailed, evictVars, remoteChanges>>

\* an eviction that allocates the scope it is asked to evict from
RemoveTeamRepoFromCache_Delete_Allocates(t) ==
    /\ At(t, "team_evict")
    /\ teamRepoCache' = Put(teamRepoCache, loc[t].team,
                            Del([Sub(teamRepoCache, loc[t].team) EXCEPT !.nil = FALSE], loc[t].repo))
    /\ evictClock' = evictClock + 1
    /\ evictedAt' = [evictedAt EXCEPT !.team[<<loc[t].team, loc[t].repo>>] = evictClock + 1]
    /\ loc' = [loc EXCEPT ![t] = Returned(@, "evicted", NoNode)]
    /\ pc' = [pc EXCEPT ![t] = "done"]
    /\ UNCHANGED <<loadSucceeded, resVars, crashed, repoVars, envVars, secretVars,
                   teamRepoCacheOnce, remoteTeamRepos, listSeqs, loadFailed, budgetVars>>

\* if o.teamRepoCache != nil && o.teamRepoCache[teamID] != nil {
\*     delete(o.teamRepoCache[teamID], repoName) }, and the return
RemoveTeamRepoFromCache_Delete(t) ==
    /\ At(t, "team_evict")
    /\ teamRepoCache' =
         IF ~teamRepoCache.nil /\ ~Sub(teamRepoCache, loc[t].team).nil
         THEN Put(teamRepoCache, loc[t].team, Del(Sub(teamRepoCache, loc[t].team), loc[t].repo))
         ELSE teamRepoCache
    /\ evictClock' = evictClock + 1
    /\ evictedAt' = [evictedAt EXCEPT !.team[<<loc[t].team, loc[t].repo>>] = evictClock + 1]
    /\ loc' = [loc EXCEPT ![t] = Returned(@, "evicted", NoNode)]
    /\ pc' = [pc EXCEPT ![t] = "done"]
    /\ UNCHANGED <<loadSucceeded, resVars, crashed, repoVars, envVars, secretVars, teamRepoCacheOnce,
                   remoteTeamRepos, listSeqs, loadFailed, budgetVars>>

\* ------------------------------------------------------------------ team-repository resource: Read
\* The resource handlers of resource_github_team_repository.go.  A handler
\* runs in a goroutine of its own; d is the handler's ResourceData: id is
\* whether the resource ID is set, statePerm the "permission" attribute.
\* checkOrganization, parseTwoPartID and getTeamID succeed, and no repository
\* is archived.

\* a handler returns: hret is "ok" for nil and "err" for an error
HandlerReturned(l, hret) == [l EXCEPT !.hret = hret]

\* goroutine t runs handler h and is at label
InHandler(t, label) == At(t, label) /\ loc[t].handler # "none" /\ loc[t].hret = "none"

\* resourceGithubTeamRepositoryRead(d, meta) called for the resource team:repo
resourceGithubTeamRepositoryRead_Call(t, teamId, repoName) ==
    /\ Free(t)
    /\ calls' = calls + 1
    /\ loc' = [loc EXCEPT ![t] = [NoCall EXCEPT !.handler = "TeamRead",
                                                 !.op = "resourceGithubTeamRepositoryRead",
                                                 !.team = teamId, !.repo = repoName]]
    /\ pc' = [pc EXCEPT ![t] = "tr_begin"]
    /\ UNCHANGED <<loadSucceeded, resVars, crashed, repoVars, envVars, secretVars, teamVars,
                   listSeqs, loadFailed, evictVars, remoteChanges>>

\* repo, err := o.GetRepoFromCache(ctx, repoName): the call and its nil check
resourceGithubTeamRepositoryRead_GetRepo(t) ==
    /\ InHandler(t, "tr_begin")
    /\ loc' = [loc EXCEPT ![t].op = "GetRepoFromCache",
                          ![t].loadedAtCall = (repoCacheOnce = "done"),
                          ![t].okAtCall = loadSucceeded.repo,
                          ![t].hitAtCall = Has(repoCache, loc[t].repo)]
    /\ pc' = [pc EXCEPT ![t] = IF repoCache.nil THEN "repo_once" ELSE "repo_lookup"]
    /\ UNCHANGED <<loadSucceeded, resVars, crashed, repoVars, envVars, secretVars, teamVars,
                   listSeqs, loadFailed, evictVars, budgetVars>>

\* if err != nil { d.SetId(""); return nil }: every error of GetRepoFromCache
\* clears the ID.  Otherwise on to the team-repository cache.
resourceGithubTeamRepositoryRead_RepoChecked(t) ==
    /\ InHandler(t, "done")
    /\ loc[t].handler \in {"TeamRead", "TeamUpdate"}
    /\ loc[t].op = "GetRepoFromCache"
    /\ IF loc[t].ret # "entry"
       THEN /\ loc' = [loc EXCEPT ![t] = HandlerReturned([@ EXCEPT !.id = FALSE,
                                                                  !.repoRet = loc[t].ret,
                                                                  !.op = "resourceGithubTeamRepositoryRead"],
                                                        "ok")]
            /\ pc' = pc
       ELSE /\ loc' = [loc EXCEPT ![t].repoRet = loc[t].ret, ![t].val = NoNode,
                                  ![t].op = "resourceGithubTeamRepositoryRead"]
            /\ pc' = [pc EXCEPT ![t] = "tr_cache"]
    /\ UNCHANGED <<loadSucceeded, resVars, crashed, repoVars, envVars, secretVars, teamVars,
                   listSeqs, loadFailed, evictVars, budgetVars>>

\* if o.teamRepoCache != nil && o.teamRepoCache[teamId] != nil {
\*     if r, ok := o.teamRepoCache[teamId][repoName]; ok { repoData = r } }
resourceGithubTeamRepositoryRead_CacheLookup(t) ==
    /\ InHandler(t, "tr_cache")
    /\ IF Has(Sub(teamRepoCache, loc[t].team), loc[t].repo)
       THEN /\ loc' = [loc EXCEPT ![t].val = Sub(teamRepoCache, loc[t].team).kv[loc[t].repo]]
            /\ pc' = [pc EXCEPT ![t] = "tr_state"]
       ELSE /\ loc' = [loc EXCEPT ![t].missed = TRUE]
            /\ pc' = [pc EXCEPT ![t] = "tr_v3"]
    /\ UNCHANGED <<loadSucceeded, resVars, crashed, repoVars, envVars, secretVars, teamVars,
                   listSeqs, loadFailed, evictVars, budgetVars>>

\* client.Teams.IsTeamRepoByID answered: the binding with its permission, or
\* 404 (d.SetId(""); return nil)
resourceGithubTeamRepositoryRead_V3(t) ==
    /\ InHandler(t, "tr_v3")
    /\ IF loc[t].repo \in remoteTeamRepos[loc[t].team]
       THEN /\ loc' = [loc EXCEPT ![t].fetched = TeamRepoNode(loc[t].team, loc[t].repo),
                                  ![t].nPoint = @ + 1]
            /\ pc' = [pc EXCEPT ![t] = "tr_once"]
       ELSE /\ loc' = [loc EXCEPT ![t] = HandlerReturned([@ EXCEPT !.id = FALSE, !.nPoint = @ + 1],
                                                        "ok")]
            /\ pc' = [pc EXCEPT ![t] = "done"]
    /\ UNCHANGED <<loadSucceeded, resVars, crashed, repoVars, envVars, secretVars, teamVars,
                   listSeqs, loadFailed, evictVars, budgetVars>>

\* IsTeamRepoByID failing: 304 Not Modified returns nil with d untouched, any
\* other error is returned
resourceGithubTeamRepositoryRead_V3Fails(t) ==
    /\ InHandler(t, "tr_v3")
    /\ \E h \in {"ok", "err"} :
          loc' = [loc EXCEPT ![t] = HandlerReturned([@ EXCEPT !.nPoint = @ + 1], h)]
    /\ pc' = [pc EXCEPT ![t] = "done"]
    /\ UNCHANGED <<loadSucceeded, resVars, crashed, repoVars, envVars, secretVars, teamVars,
                   listSeqs, loadFailed, evictVars, budgetVars>>

\* o.teamRepoCacheOnce.Do(func() { if o.teamRepoCache == nil { make } })
resourceGithubTeamRepositoryRead_Once(t) ==
    /\ InHandler(t, "tr_once")
    /\ OnceMayEnter(teamRepoCacheOnce)
    /\ IF OnceRuns(teamRepoCacheOnce)
       THEN /\ teamRepoCacheOnce' = "done"
            /\ teamRepoCache' = IF teamRepoCache.nil THEN EmptyMap ELSE teamRepoCache
       ELSE UNCHANGED <<teamRepoCacheOnce, teamRepoCache>>
    /\ pc' = [pc EXCEPT ![t] = "tr_inner"]
    /\ UNCHANGED <<loadSucceeded, resVars, loc, crashed, repoVars, envVars, secretVars,
                   remoteTeamRepos, listSeqs, loadFailed, evictVars, budgetVars>>

\* if o.teamRepoCache[teamId] == nil
resourceGithubTeamRepositoryRead_Inner(t) ==
    /\ InHandler(t, "tr_inner")
    /\ pc' = [pc EXCEPT ![t] = IF Sub(teamRepoCache, loc[t].team).nil
                               THEN "tr_innermake" ELSE "tr_put"]
    /\ UNCHANGED <<loadSucceeded, resVars, loc, crashed, repoVars, envVars, secretVars, teamVars,
                   listSeqs, loadFailed, evictVars, budgetVars>>

\* o.teamRepoCache[teamId] = make(map[string]*TeamRepoV4Data)
resourceGithubTeamRepositoryRead_InnerMake(t) ==
    /\ InHandler(t, "tr_innermake")
    /\ teamRepoCache' = Put(teamRepoCache, loc[t].team, EmptyMap)
    /\ pc' = [pc EXCEPT ![t] = "tr_put"]
    /\ UNCHANGED <<loadSucceeded, resVars, loc, crashed, repoVars, envVars, secretVars,
                   teamRepoCacheOnce, remoteTeamRepos, listSeqs, loadFailed, evictVars,
                   budgetVars>>

\* o.teamRepoCache[teamId][repoName] = repoData
resourceGithubTeamRepositoryRead_Put(t) ==
    /\ InHandler(t, "tr_put")
    /\ IF Sub(teamRepoCache, loc[t].team).nil
       THEN /\ crashed' = TRUE
            /\ UNCHANGED <<pc, loc, teamRepoCache>>
       ELSE /\ crashed' = crashed
            /\ teamRepoCache' = Put(teamRepoCache, loc[t].team,
                                    Put(Sub(teamRepoCache, loc[t].team), loc[t].repo,
                                        loc[t].fetched))
            /\ loc' = [loc EXCEPT ![t].val = loc[t].fetched, ![t].fetched = NoNode]
            /\ pc' = [pc EXCEPT ![t] = "tr_state"]
    /\ UNCHANGED <<loadSucceeded, resVars, repoVars, envVars, secretVars, teamRepoCacheOnce,
                   remoteTeamRepos, listSeqs, loadFailed, evictVars, budgetVars>>

\* d.Set("repository", repoData.Name); d.Set("permission", repoData.Permission);
\* return nil
resourceGithubTeamRepositoryRead_SetState(t) ==
    /\ InHandler(t, "tr_state")
    /\ loc' = [loc EXCEPT ![t] = HandlerReturned([@ EXCEPT !.statePerm = loc[t].val.Permission],
                                                 "ok")]
    /\ pc' = [pc EXCEPT ![t] = "done"]
    /\ UNCHANGED <<loadSucceeded, resVars, crashed, repoVars, envVars, secretVars, teamVars,
                   listSeqs, loadFailed, evictVars, budgetVars>>

\* ------------------------------------------------------------------ team-repository resource: Update, Delete
\* the repository is renamed on the remote: REST GETs under the old name are
\* redirected to the repository, REST DELETEs under the old name answer 404
RemoteRenameRepo(r) ==
    /\ RemoteMayChange
    /\ r \in remoteRepos /\ r \notin renamed
    /\ renamed' = renamed \cup {r}
    /\ remoteChanges' = remoteChanges + 1
    /\ UNCHANGED <<loadSucceeded, remoteTeamPerm, pc, loc, crashed, repoVars, envVars,
                   secretVars, teamVars, listSeqs, loadFailed, evictVars, calls>>

\* client.Repositories.Get at the head of Update and Delete: 404 clears the
\* ID and returns nil, the repository found goes on to label next
RepositoriesGet(t, next) ==
    IF loc[t].repo \in remoteRepos
    THEN /\ loc' = loc
         /\ pc' = [pc EXCEPT ![t] = next]
    ELSE /\ loc' = [loc EXCEPT ![t] = HandlerReturned([@ EXCEPT !.id = FALSE], "ok")]
         /\ pc' = [pc EXCEPT ![t] = "done"]

\* a REST call of the handler fails with an error the handler returns
RestFails(t) ==
    /\ loc' = [loc EXCEPT ![t] = HandlerReturned(@, "err")]
    /\ pc' = [pc EXCEPT ![t] = "done"]
    /\ UNCHANGED <<loadSucceeded, resVars, crashed, repoVars, envVars, secretVars, teamVars,
                   listSeqs, loadFailed, evictVars, budgetVars>>
\* resourceGithubTeamRepositoryUpdate(d, meta) called: d holds the planned
\* permission (permission := d.Get("permission"))
resourceGithubTeamRepositoryUpdate_Call(t, teamId, repoName, permission) ==
    /\ Free(t)
    /\ calls < MaxUpdates
    /\ calls' = calls + 1
    /\ loc' = [loc EXCEPT ![t] = [NoCall EXCEPT !.handler = "TeamUpdate",
                                                 !.op = "resourceGithubTeamRepositoryUpdate",
                                                 !.team = teamId, !.repo = repoName,
                                                 !.perm = permission,
                                                 !.statePerm = permission]]
    /\ pc' = [pc EXCEPT ![t] = "tu_get"]
    /\ UNCHANGED <<loadSucceeded, resVars, crashed, repoVars, envVars, secretVars, teamVars,
                   listSeqs, loadFailed, evictVars, remoteChanges>>

\* repo, resp, err := client.Repositories.Get(ctx, orgName, repoName)
resourceGithubTeamRepositoryUpdate_RepoGet(t) ==
    /\ InHandler(t, "tu_get")
    /\ RepositoriesGet(t, "tu_add")
    /\ UNCHANGED <<loadSucceeded, resVars, crashed, repoVars, envVars, secretVars, teamVars,
                   listSeqs, loadFailed, evictVars, budgetVars>>
resourceGithubTeamRepositoryUpdate_RepoGetFails(t) ==
    /\ InHandler(t, "tu_get")
    /\ RestFails(t)

\* client.Teams.AddTeamRepoByID(..., &TeamAddTeamRepoOptions{Permission: permission})
\* succeeded; d.SetId; return resourceGithubTeamRepositoryRead(d, meta)
resourceGithubTeamRepositoryUpdate_Add(t) ==
    /\ InHandler(t, "tu_add")
    /\ remoteTeamRepos' = [remoteTeamRepos EXCEPT ![loc[t].team] = @ \cup {loc[t].repo}]
    /\ remoteTeamPerm' = [remoteTeamPerm EXCEPT ![<<loc[t].team, loc[t].repo>>] = loc[t].perm]
    /\ loc' = [loc EXCEPT ![t].updated = TRUE]
    /\ pc' = [pc EXCEPT ![t] = "tr_begin"]
    /\ UNCHANGED <<loadSucceeded, renamed, crashed, repoVars, envVars, secretVars,
                   teamRepoCache, teamRepoCacheOnce, listSeqs, loadFailed, evictVars,
                   budgetVars>>

resourceGithubTeamRepositoryUpdate_AddFails(t) ==
    /\ InHandler(t, "tu_add")
    /\ RestFails(t)

\* resourceGithubTeamRepositoryDelete(d, meta) called
resourceGithubTeamRepositoryDelete_Call(t, teamId, repoName) ==
    /\ Free(t)
    /\ evictClock + Cardinality({u \in Threads : loc[u].handler = "TeamDelete"
                                                  /\ loc[u].hret = "none"}) < MaxEvicts
    /\ calls' = calls + 1
    /\ loc' = [loc EXCEPT ![t] = [NoCall EXCEPT !.handler = "TeamDelete",
                                                 !.op = "resourceGithubTeamRepositoryDelete",
                                                 !.team = teamId, !.repo = repoName,
                                                 !.hitAtCall = Has(Sub(teamRepoCache, teamId),
                                                                   repoName)]]
    /\ pc' = [pc EXCEPT ![t] = "td_get"]
    /\ UNCHANGED <<loadSucceeded, resVars, crashed, repoVars, envVars, secretVars, teamVars,
                   listSeqs, loadFailed, evictVars, remoteChanges>>

\* repo, resp, err := client.Repositories.Get(ctx, orgName, repoName)
resourceGithubTeamRepositoryDelete_RepoGet(t) ==
    /\ InHandler(t, "td_get")
    /\ RepositoriesGet(t, "td_remove")
    /\ UNCHANGED <<loadSucceeded, resVars, crashed, repoVars, envVars, secretVars, teamVars,
                   listSeqs, loadFailed, evictVars, budgetVars>>
resourceGithubTeamRepositoryDelete_RepoGetFails(t) ==
    /\ InHandler(t, "td_get")
    /\ RestFails(t)

\* resp, err := client.Teams.RemoveTeamRepoByID(ctx, orgId, teamId, orgName, repoName)
\* answered 204 (the binding is removed) or 404 (the old name of a renamed
\* repository, or no such binding)
resourceGithubTeamRepositoryDelete_Remove(t) ==
    /\ InHandler(t, "td_remove")
    /\ IF loc[t].repo \in renamed \/ loc[t].repo \notin remoteTeamRepos[loc[t].team]
       THEN /\ remoteTeamRepos' = remoteTeamRepos
            /\ loc' = [loc EXCEPT ![t].derr = TRUE]
            /\ pc' = [pc EXCEPT ![t] = "td_get2"]
       ELSE /\ remoteTeamRepos' = [remoteTeamRepos EXCEPT ![loc[t].team] = @ \ {loc[t].repo}]
            /\ loc' = [loc EXCEPT ![t].deleted = TRUE]
            /\ pc' = [pc EXCEPT ![t] = "td_evict"]
    /\ UNCHANGED <<loadSucceeded, resVars, crashed, repoVars, envVars, secretVars,
                   teamRepoCache, teamRepoCacheOnce, listSeqs, loadFailed, evictVars,
                   budgetVars>>

\* RemoveTeamRepoByID failed.  With a status other than 404 the handler goes
\* on to the eviction and returns the error after it; with no response at
\* all (resp == nil) 'resp.StatusCode' is a nil dereference and panics.
resourceGithubTeamRepositoryDelete_RemoveFails(t) ==
    /\ InHandler(t, "td_remove")
    /\ \/ /\ loc' = [loc EXCEPT ![t].derr = TRUE]
          /\ pc' = [pc EXCEPT ![t] = "td_evict"]
          /\ crashed' = crashed
       \/ /\ crashed' = TRUE
          /\ UNCHANGED <<pc, loc>>
    /\ UNCHANGED <<loadSucceeded, resVars, repoVars, envVars, secretVars, teamVars,
                   listSeqs, loadFailed, evictVars, budgetVars>>
\* if resp.StatusCode == 404 { repo, _, err := client.Repositories.Get(...);
\*     newRepoName := repo.GetName(); if newRepoName != repoName { ... } }
resourceGithubTeamRepositoryDelete_RepoGet2(t) ==
    /\ InHandler(t, "td_get2")
    /\ IF loc[t].repo \notin remoteRepos
       THEN /\ loc' = [loc EXCEPT ![t] = HandlerReturned(@, "err")]
            /\ pc' = [pc EXCEPT ![t] = "done"]
       ELSE /\ loc' = loc
            /\ pc' = [pc EXCEPT ![t] = IF loc[t].repo \in renamed
                                       THEN "td_remove2" ELSE "td_evict"]
    /\ UNCHANGED <<loadSucceeded, resVars, crashed, repoVars, envVars, secretVars, teamVars,
                   listSeqs, loadFailed, evictVars, budgetVars>>
resourceGithubTeamRepositoryDelete_RepoGet2Fails(t) ==
    /\ InHandler(t, "td_get2")
    /\ RestFails(t)

\* _, err := client.Teams.RemoveTeamRepoByID(..., newRepoName);
\* return handleArchivedRepoDelete(err, ...): the return of the rename path
resourceGithubTeamRepositoryDelete_Remove2(t) ==
    /\ InHandler(t, "td_remove2")
    /\ IF loc[t].repo \in remoteTeamRepos[loc[t].team]
       THEN /\ remoteTeamRepos' = [remoteTeamRepos EXCEPT ![loc[t].team] = @ \ {loc[t].repo}]
            /\ loc' = [loc EXCEPT ![t] = HandlerReturned([@ EXCEPT !.deleted = TRUE,
                                                                  !.derr = FALSE], "ok")]
       ELSE /\ remoteTeamRepos' = remoteTeamRepos
            /\ loc' = [loc EXCEPT ![t] = HandlerReturned(@, "err")]
    /\ pc' = [pc EXCEPT ![t] = "done"]
    /\ UNCHANGED <<loadSucceeded, resVars, crashed, repoVars, envVars, secretVars,
                   teamRepoCache, teamRepoCacheOnce, listSeqs, loadFailed, evictVars,
                   budgetVars>>

resourceGithubTeamRepositoryDelete_Remove2Fails(t) ==
    /\ InHandler(t, "td_remove2")
    /\ RestFails(t)

\* if o.teamRepoCache != nil && o.teamRepoCache[teamId] != nil {
\*     delete(o.teamRepoCache[teamId], repoName) }
\* return handleArchivedRepoDelete(err, ...)
resourceGithubTeamRepositoryDelete_Evict(t) ==
    /\ InHandler(t, "td_evict")
    /\ teamRepoCache' = IF Sub(teamRepoCache, loc[t].team).nil
                        THEN teamRepoCache
                        ELSE Put(teamRepoCache, loc[t].team,
                                 Del(Sub(teamRepoCache, loc[t].team), loc[t].repo))
    /\ evictClock' = evictClock + 1
    /\ evictedAt' = [evictedAt EXCEPT !.team[<<loc[t].team, loc[t].repo>>] = evictClock + 1]
    /\ loc' = [loc EXCEPT ![t] = HandlerReturned(@, IF loc[t].derr THEN "err" ELSE "ok")]
    /\ pc' = [pc EXCEPT ![t] = "done"]
    /\ UNCHANGED <<loadSucceeded, resVars, crashed, repoVars, envVars, secretVars,
                   teamRepoCacheOnce, remoteTeamRepos, listSeqs, loadFailed, budgetVars>>

\* ------------------------------------------------------------------ environment resource: Delete
\* resourceGithubRepositoryEnvironmentDelete(ctx, d, meta) called; parseID2 succeeds
resourceGithubRepositoryEnvironmentDelete_Call(t, repoName, envName) ==
    /\ Free(t)
    /\ evictClock + Cardinality({u \in Threads : loc[u].handler = "EnvDelete"
                                                  /\ loc[u].hret = "none"}) < MaxEvicts
    /\ calls' = calls + 1
    /\ loc' = [loc EXCEPT ![t] = [NoCall EXCEPT !.handler = "EnvDelete",
                                                 !.op = "resourceGithubRepositoryEnvironmentDelete",
                                                 !.repo = repoName, !.env = envName]]
    /\ pc' = [pc EXCEPT ![t] = "ed_get"]
    /\ UNCHANGED <<loadSucceeded, resVars, crashed, repoVars, envVars, secretVars, teamVars,
                   listSeqs, loadFailed, evictVars, remoteChanges>>

\* repo, resp, _ := client.Repositories.Get(ctx, owner, repoName)
\* if resp == nil || resp.StatusCode == 404 { d.SetId(""); return nil }
resourceGithubRepositoryEnvironmentDelete_RepoGet(t) ==
    /\ InHandler(t, "ed_get")
    /\ RepositoriesGet(t, "ed_delete")
    /\ UNCHANGED <<loadSucceeded, resVars, crashed, repoVars, envVars, secretVars, teamVars,
                   listSeqs, loadFailed, evictVars, budgetVars>>
\* Repositories.Get failed without a response (resp == nil): d.SetId(""); return nil
resourceGithubRepositoryEnvironmentDelete_RepoGetFails(t) ==
    /\ InHandler(t, "ed_get")
    /\ loc' = [loc EXCEPT ![t] = HandlerReturned([@ EXCEPT !.id = FALSE], "ok")]
    /\ pc' = [pc EXCEPT ![t] = "done"]
    /\ UNCHANGED <<loadSucceeded, resVars, crashed, repoVars, envVars, secretVars, teamVars,
                   listSeqs, loadFailed, evictVars, budgetVars>>
\* _, err = client.Repositories.DeleteEnvironment(ctx, owner, repoName, envName)
\* answered: the environment is deleted, or it does not exist (404, which
\* deleteResourceOn404AndSwallow304OtherwiseReturnError turns into
\* d.SetId("") and no error: the handler returns before the eviction)
resourceGithubRepositoryEnvironmentDelete_Delete(t) ==
    /\ InHandler(t, "ed_delete")
    /\ IF loc[t].env \in remoteEnvs[loc[t].repo]
       THEN /\ remoteEnvs' = [remoteEnvs EXCEPT ![loc[t].repo] = @ \ {loc[t].env}]
            /\ loc' = [loc EXCEPT ![t].deleted = TRUE]
            /\ pc' = [pc EXCEPT ![t] = "ed_evict"]
       ELSE /\ remoteEnvs' = remoteEnvs
            /\ loc' = [loc EXCEPT ![t] = HandlerReturned([@ EXCEPT !.id = FALSE], "ok")]
            /\ pc' = [pc EXCEPT ![t] = "done"]
    /\ UNCHANGED <<loadSucceeded, resVars, crashed, repoVars, envCache, envCacheOnce,
                   secretVars, teamVars, listSeqs, loadFailed, evictVars, budgetVars>>

\* DeleteEnvironment failed: return diag.FromErr(...)
resourceGithubRepositoryEnvironmentDelete_DeleteFails(t) ==
    /\ InHandler(t, "ed_delete")
    /\ RestFails(t)
    /\ UNCHANGED <<loadSucceeded, resVars, crashed, repoVars, envVars, secretVars, teamVars,
                   listSeqs, loadFailed, evictVars, budgetVars>>
\* if o.envCache != nil && o.envCache[repoName] != nil {
\*     delete(o.envCache[repoName], envName) }
\* return nil
resourceGithubRepositoryEnvironmentDelete_Evict(t) ==
    /\ InHandler(t, "ed_evict")
    /\ envCache' = IF Sub(envCache, loc[t].repo).nil
                   THEN envCache
                   ELSE Put(envCache, loc[t].repo,
                            Del(Sub(envCache, loc[t].repo), loc[t].env))
    /\ evictClock' = evictClock + 1
    /\ evictedAt' = [evictedAt EXCEPT !.env[<<loc[t].repo, loc[t].env>>] = evictClock + 1]
    /\ loc' = [loc EXCEPT ![t] = HandlerReturned(@, "ok")]
    /\ pc' = [pc EXCEPT ![t] = "done"]
    /\ UNCHANGED <<loadSucceeded, resVars, crashed, repoVars, envCacheOnce, remoteEnvs,
                   secretVars, teamVars, listSeqs, loadFailed, budgetVars>>

\* ------------------------------------------------------------------ environment resource: Read
\* resourceGithubRepositoryEnvironmentRead(ctx, d, meta) called; parseID2 succeeds
resourceGithubRepositoryEnvironmentRead_Call(t, repoName, envName) ==
    /\ Free(t)
    /\ calls < MaxReads
    /\ calls' = calls + 1
    /\ loc' = [loc EXCEPT ![t] = [NoCall EXCEPT !.handler = "EnvRead",
                                                 !.op = "resourceGithubRepositoryEnvironmentRead",
                                                 !.repo = repoName, !.env = envName]]
    /\ pc' = [pc EXCEPT ![t] = "er_begin"]
    /\ UNCHANGED <<loadSucceeded, resVars, crashed, repoVars, envVars, secretVars, teamVars,
                   listSeqs, loadFailed, evictVars, remoteChanges>>

\* repo, err := o.GetRepoFromCache(ctx, repoName): the call and its nil check
resourceGithubRepositoryEnvironmentRead_GetRepo(t) ==
    /\ InHandler(t, "er_begin")
    /\ loc' = [loc EXCEPT ![t].op = "GetRepoFromCache",
                          ![t].loadedAtCall = (repoCacheOnce = "done"),
                          ![t].okAtCall = loadSucceeded.repo,
                          ![t].hitAtCall = Has(repoCache, loc[t].repo)]
    /\ pc' = [pc EXCEPT ![t] = IF repoCache.nil THEN "repo_once" ELSE "repo_lookup"]
    /\ UNCHANGED <<loadSucceeded, resVars, crashed, repoVars, envVars, secretVars, teamVars,
                   listSeqs, loadFailed, evictVars, budgetVars>>
\* if err != nil { d.SetId(""); return nil }
resourceGithubRepositoryEnvironmentRead_RepoChecked(t) ==
    /\ InHandler(t, "done")
    /\ loc[t].handler = "EnvRead"
    /\ loc[t].op = "GetRepoFromCache"
    /\ IF loc[t].ret # "entry"
       THEN /\ loc' = [loc EXCEPT ![t] = HandlerReturned([@ EXCEPT !.id = FALSE,
                                                                  !.repoRet = loc[t].ret,
                                                                  !.op = "resourceGithubRepositoryEnvironmentRead"],
                                                        "ok")]
            /\ pc' = pc
       ELSE /\ loc' = [loc EXCEPT ![t].repoRet = loc[t].ret, ![t].val = NoNode,
                                  ![t].ret = "none",
                                  ![t].op = "resourceGithubRepositoryEnvironmentRead"]
            /\ pc' = [pc EXCEPT ![t] = "er_getenv"]
    /\ UNCHANGED <<loadSucceeded, resVars, crashed, repoVars, envVars, secretVars, teamVars,
                   listSeqs, loadFailed, evictVars, budgetVars>>
\* envData, err := o.GetEnvironmentFromCache(ctx, repoName, envName): the call
\* and its check 'o.envCache == nil || o.envCache[repoName] == nil'
resourceGithubRepositoryEnvironmentRead_GetEnv(t) ==
    /\ InHandler(t, "er_getenv")
    /\ loc' = [loc EXCEPT ![t].op = "GetEnvironmentFromCache",
                          ![t].nList = 0, ![t].nPoint = 0, ![t].missed = FALSE,
                          ![t].loadedAtCall = Has(envCache, loc[t].repo),
                          ![t].okAtCall = (loc[t].repo \in loadSucceeded.env),
                          ![t].hitAtCall = Has(Sub(envCache, loc[t].repo), loc[t].env),
                          ![t].lastEvict = evictedAt.env[<<loc[t].repo, loc[t].env>>]]
    /\ pc' = [pc EXCEPT ![t] = IF envCache.nil \/ Sub(envCache, loc[t].repo).nil
                               THEN "env_once" ELSE "env_lookup"]
    /\ UNCHANGED <<loadSucceeded, resVars, crashed, repoVars, envVars, secretVars, teamVars,
                   listSeqs, loadFailed, evictVars, budgetVars>>
\* if err != nil { the v3 fallback }, else envData is the cached entry
resourceGithubRepositoryEnvironmentRead_EnvChecked(t) ==
    /\ InHandler(t, "done")
    /\ loc[t].handler = "EnvRead"
    /\ loc[t].op = "GetEnvironmentFromCache"
    /\ loc' = [loc EXCEPT ![t].op = "resourceGithubRepositoryEnvironmentRead"]
    /\ pc' = [pc EXCEPT ![t] = IF loc[t].ret = "entry" THEN "er_state" ELSE "er_v3"]
    /\ UNCHANGED <<loadSucceeded, resVars, crashed, repoVars, envVars, secretVars, teamVars,
                   listSeqs, loadFailed, evictVars, budgetVars>>
\* envV3, _, err := client.Repositories.GetEnvironment(...) answered: the
\* environment, mapped into EnvV4Data with WaitTimer: 0, PreventSelfReview:
\* false, ProtectionRules: {} whatever the remote has; or 404 (d.SetId("");
\* return nil)
resourceGithubRepositoryEnvironmentRead_V3(t) ==
    /\ InHandler(t, "er_v3")
    /\ IF loc[t].env \in remoteEnvs[loc[t].repo]
       THEN /\ loc' = [loc EXCEPT ![t].fetched = [Name |-> loc[t].env, WaitTimer |-> 0,
                                                  at |-> evictClock],
                                  ![t].nPoint = @ + 1]
            /\ pc' = [pc EXCEPT ![t] = "er_outer"]
       ELSE /\ loc' = [loc EXCEPT ![t] = HandlerReturned([@ EXCEPT !.id = FALSE, !.nPoint = @ + 1],
                                                        "ok")]
            /\ pc' = [pc EXCEPT ![t] = "done"]
    /\ UNCHANGED <<loadSucceeded, resVars, crashed, repoVars, envVars, secretVars, teamVars,
                   listSeqs, loadFailed, evictVars, budgetVars>>
\* GetEnvironment failed with another error: return diag.FromErr(err)
resourceGithubRepositoryEnvironmentRead_V3Fails(t) ==
    /\ InHandler(t, "er_v3")
    /\ RestFails(t)
    /\ UNCHANGED <<loadSucceeded, resVars, crashed, repoVars, envVars, secretVars, teamVars,
                   listSeqs, loadFailed, evictVars, budgetVars>>
\* if o.envCache == nil { o.envCache = make(...) }
resourceGithubRepositoryEnvironmentRead_Outer(t) ==
    /\ InHandler(t, "er_outer")
    /\ envCache' = IF envCache.nil THEN EmptyMap ELSE envCache
    /\ pc' = [pc EXCEPT ![t] = "er_inner"]
    /\ UNCHANGED <<loadSucceeded, resVars, loc, crashed, repoVars, envCacheOnce, remoteEnvs,
                   secretVars, teamVars, listSeqs, loadFailed, evictVars, budgetVars>>

\* if o.envCache[repoName] == nil { o.envCache[repoName] = make(...) }: the
\* scope is never nil here, GetEnvironmentFromCache has marked it before it
\* returned its error
resourceGithubRepositoryEnvironmentRead_Inner(t) ==
    /\ InHandler(t, "er_inner")
    /\ envCache' = IF Sub(envCache, loc[t].repo).nil
                   THEN Put(envCache, loc[t].repo, EmptyMap) ELSE envCache
    /\ pc' = [pc EXCEPT ![t] = "er_put"]
    /\ UNCHANGED <<loadSucceeded, resVars, loc, crashed, repoVars, envCacheOnce, remoteEnvs,
                   secretVars, teamVars, listSeqs, loadFailed, evictVars, budgetVars>>

\* o.envCache[repoName][envName] = envData
resourceGithubRepositoryEnvironmentRead_Put(t) ==
    /\ InHandler(t, "er_put")
    /\ IF Sub(envCache, loc[t].repo).nil
       THEN /\ crashed' = TRUE
            /\ UNCHANGED <<pc, loc, envCache>>
       ELSE /\ crashed' = crashed
            /\ envCache' = Put(envCache, loc[t].repo,
                               Put(Sub(envCache, loc[t].repo), loc[t].env, loc[t].fetched))
            /\ loc' = [loc EXCEPT ![t].val = loc[t].fetched, ![t].fetched = NoNode]
            /\ pc' = [pc EXCEPT ![t] = "er_state"]
    /\ UNCHANGED <<loadSucceeded, resVars, repoVars, envCacheOnce, remoteEnvs, secretVars,
                   teamVars, listSeqs, loadFailed, evictVars, budgetVars>>

\* d.Set("repository", ...), d.Set("wait_timer", envData.WaitTimer), ...; return nil
resourceGithubRepositoryEnvironmentRead_SetState(t) ==
    /\ InHandler(t, "er_state")
    /\ loc' = [loc EXCEPT ![t] = HandlerReturned(@, "ok")]
    /\ pc' = [pc EXCEPT ![t] = "done"]
    /\ UNCHANGED <<loadSucceeded, resVars, crashed, repoVars, envVars, secretVars, teamVars,
                   listSeqs, loadFailed, evictVars, budgetVars>>
\* ------------------------------------------------------------------ unsynchronised map accesses
\* The maps the next statement of goroutine t reads and writes.  A map is
\* named by its cache and its path of keys: <<>> is the cache's own map,
\* <<k>> the map stored under k.  No cache takes a lock around any of them.
RepoReads(t) ==
    IF pc[t] = "repo_lookup" THEN {<<"repoCache", <<>>>>} ELSE {}

RepoWrites(t) ==
    IF \/ pc[t] = "repo_insert" /\ loc[t].page # <<>>
       \/ pc[t] = "repo_pinsert"
    THEN {<<"repoCache", <<>>>>} ELSE {}

EnvReads(t) ==
    CASE pc[t] \in {"env_loaded", "env_insert", "ed_evict", "er_outer", "er_inner", "er_put"} ->
             {<<"envCache", <<>>>>}
      [] pc[t] = "env_lookup" -> {<<"envCache", <<>>>>, <<"envCache", <<loc[t].repo>>>>}
      [] OTHER -> {}

EnvWrites(t) ==
    CASE pc[t] = "env_mark" -> {<<"envCache", <<>>>>}
      [] pc[t] = "env_insert" /\ loc[t].page # <<>> /\ ~Sub(envCache, loc[t].repo).nil ->
             {<<"envCache", <<loc[t].repo>>>>}
      [] pc[t] \in {"ed_evict", "er_put"} /\ ~Sub(envCache, loc[t].repo).nil ->
             {<<"envCache", <<loc[t].repo>>>>}
      [] \/ pc[t] = "er_inner" /\ Sub(envCache, loc[t].repo).nil
         \/ pc[t] = "er_outer" /\ envCache.nil ->
             {<<"envCache", <<>>>>}
      [] OTHER -> {}

SecretReads(t) ==
    CASE pc[t] = "sec_repo" -> {<<"envSecretCache", <<>>>>}
      [] pc[t] \in {"sec_loaded", "sec_mark", "sec_insert"} ->
             {<<"envSecretCache", <<>>>>, <<"envSecretCache", <<loc[t].repo>>>>}
      [] pc[t] = "sec_lookup" ->
             {<<"envSecretCache", <<>>>>, <<"envSecretCache", <<loc[t].repo>>>>,
              <<"envSecretCache", <<loc[t].repo, loc[t].env>>>>}
      [] OTHER -> {}

SecretWrites(t) ==
    CASE pc[t] = "sec_repomake" -> {<<"envSecretCache", <<>>>>}
      [] pc[t] = "sec_mark" /\ ~Sub(envSecretCache, loc[t].repo).nil ->
             {<<"envSecretCache", <<loc[t].repo>>>>}
      [] pc[t] = "sec_insert" /\ loc[t].page # <<>> /\ ~SecretScope(loc[t].repo, loc[t].env).nil ->
             {<<"envSecretCache", <<loc[t].repo, loc[t].env>>>>}
      [] OTHER -> {}

TeamReads(t) ==
    CASE pc[t] \in {"team_loaded", "team_insert", "team_evict", "tr_inner", "tr_put",
                    "td_evict"} -> {<<"teamRepoCache", <<>>>>}
      [] pc[t] \in {"team_lookup", "tr_cache"} ->
             {<<"teamRepoCache", <<>>>>, <<"teamRepoCache", <<loc[t].team>>>>}
      [] OTHER -> {}

TeamWrites(t) ==
    CASE pc[t] = "team_mark" -> {<<"teamRepoCache", <<>>>>}
      [] /\ pc[t] = "team_insert" /\ loc[t].page # <<>>
         /\ ~Sub(teamRepoCache, loc[t].team).nil -> {<<"teamRepoCache", <<loc[t].team>>>>}
      [] /\ pc[t] \in {"team_evict", "td_evict", "tr_put"}
         /\ ~Sub(teamRepoCache, loc[t].team).nil -> {<<"teamRepoCache", <<loc[t].team>>>>}
      [] pc[t] = "tr_innermake" -> {<<"teamRepoCache", <<>>>>}
      [] OTHER -> {}

Reads(t) == RepoReads(t) \cup EnvReads(t) \cup SecretReads(t) \cup TeamReads(t)

Writes(t) == RepoWrites(t) \cup EnvWrites(t) \cup SecretWrites(t) \cup TeamWrites(t)

\* two goroutines are about to access one map, one of them writing, with
\* nothing ordering the two accesses
DataRace ==
    \E t, u \in Threads :
        /\ t # u
        /\ Writes(t) \cap (Reads(u) \cup Writes(u)) # {}

\* One outcome of such a race: the Go runtime detects the concurrent map
\* access and aborts the process ("fatal error: concurrent map writes").
\* The other outcomes are the interleavings of the two statements.
FatalConcurrentMapAccess ==
    /\ ~crashed
    /\ DataRace
    /\ crashed' = TRUE
    /\ UNCHANGED <<loadSucceeded, resVars, pc, loc, repoVars, envVars, secretVars, teamVars, listSeqs,
                   loadFailed, evictVars, budgetVars>>

\* ------------------------------------------------------------------ specifications
NextRepo ==
    \/ \E r \in Repos : RemoteCreateRepo(r)
    \/ \E r \in Repos : RemoteDeleteRepo(r)
    \/ \E t \in Threads, r \in Repos : GetRepoFromCache_Check(t, r)
    \/ \E t \in Threads : loadAllReposV4_Once(t)
    \/ \E t \in Threads : loadAllReposV4_Make(t)
    \/ \E t \in Threads : loadAllReposV4_Query(t)
    \/ \E t \in Threads : loadAllReposV4_QueryFails(t)
    \/ \E t \in Threads : loadAllReposV4_Insert(t)
    \/ \E t \in Threads : GetRepoFromCache_Lookup(t)
    \/ \E t \in Threads : GetRepoFromCache_PointQuery(t)
    \/ \E t \in Threads : GetRepoFromCache_PointQueryFails(t)
    \/ \E t \in Threads : GetRepoFromCache_PointInsert(t)
    \/ FatalConcurrentMapAccess

SpecRepo == InitRepo /\ [][NextRepo]_vars

NextEnv ==
    \/ \E r \in Repos, e \in Envs : RemoteCreateEnv(r, e)
    \/ \E r \in Repos, e \in Envs : RemoteDeleteEnv(r, e)
    \/ \E t \in Threads, r \in Repos, e \in Envs : GetEnvironmentFromCache_Check(t, r, e)
    \/ \E t \in Threads : loadAllEnvironmentsV4_Once(t)
    \/ \E t \in Threads : loadAllEnvironmentsV4_Loaded(t)
    \/ \E t \in Threads : loadAllEnvironmentsV4_Mark(t)
    \/ \E t \in Threads : loadAllEnvironmentsV4_Query(t)
    \/ \E t \in Threads : loadAllEnvironmentsV4_QueryFails(t)
    \/ \E t \in Threads : loadAllEnvironmentsV4_Insert(t)
    \/ \E t \in Threads : GetEnvironmentFromCache_Lookup(t)
    \/ FatalConcurrentMapAccess

SpecEnv == InitEnv /\ [][NextEnv]_vars

NextSecret ==
    \/ \E r \in Repos, e \in Envs, x \in Secrets : RemoteCreateSecret(r, e, x)
    \/ \E r \in Repos, e \in Envs, x \in Secrets : RemoteDeleteSecret(r, e, x)
    \/ \E t \in Threads, r \in Repos, e \in Envs, x \in Secrets :
          GetEnvSecretFromCache_Check(t, r, e, x)
    \/ \E t \in Threads : loadAllEnvSecretsV4_Once(t)
    \/ \E t \in Threads : loadAllEnvSecretsV4_Repo(t)
    \/ \E t \in Threads : loadAllEnvSecretsV4_RepoMake(t)
    \/ \E t \in Threads : loadAllEnvSecretsV4_Loaded(t)
    \/ \E t \in Threads : loadAllEnvSecretsV4_Mark(t)
    \/ \E t \in Threads : loadAllEnvSecretsV4_Query(t)
    \/ \E t \in Threads : loadAllEnvSecretsV4_QueryFails(t)
    \/ \E t \in Threads : loadAllEnvSecretsV4_Insert(t)
    \/ \E t \in Threads : GetEnvSecretFromCache_Lookup(t)
    \/ FatalConcurrentMapAccess

SpecSecret == InitSecret /\ [][NextSecret]_vars

NextTeam ==
    \/ \E m \in Teams, r \in Repos : RemoteCreateTeamRepo(m, r)
    \/ \E m \in Teams, r \in Repos : RemoteDeleteTeamRepo(m, r)
    \/ \E t \in Threads, m \in Teams, r \in Repos : GetTeamRepoFromCache_Check(t, m, r)
    \/ \E t \in Threads : loadAllTeamReposV4_Once(t)
    \/ \E t \in Threads : loadAllTeamReposV4_Loaded(t)
    \/ \E t \in Threads : loadAllTeamReposV4_Mark(t)
    \/ \E t \in Threads : loadAllTeamReposV4_Query(t)
    \/ \E t \in Threads : loadAllTeamReposV4_QueryFails(t)
    \/ \E t \in Threads : loadAllTeamReposV4_Insert(t)
    \/ \E t \in Threads : GetTeamRepoFromCache_Lookup(t)
    \/ \E t \in Threads, m \in Teams, r \in Repos : RemoveTeamRepoFromCache_Call(t, m, r)
    \/ \E t \in Threads : RemoveTeamRepoFromCache_Delete(t)
    \/ FatalConcurrentMapAccess

SpecTeam == InitTeam /\ [][NextTeam]_vars

\* The steps of goroutine t inside GetRepoFromCache.  The Go scheduler runs
\* every runnable goroutine and the remote answers every query, with a page
\* or with a failure: a step that stays enabled is taken.
RepoStep(t) ==
    \/ loadAllReposV4_Once(t)
    \/ loadAllReposV4_Make(t)
    \/ loadAllReposV4_Query(t)
    \/ loadAllReposV4_QueryFails(t)
    \/ loadAllReposV4_Insert(t)
    \/ GetRepoFromCache_Lookup(t)
    \/ GetRepoFromCache_PointQuery(t)
    \/ GetRepoFromCache_PointQueryFails(t)
    \/ GetRepoFromCache_PointInsert(t)

SpecRepoFair == SpecRepo /\ \A t \in Threads : WF_vars(RepoStep(t))

\* The Read handler of the team-repository resource over the repository
\* cache and the team-repository cache, next to the Gets of the
\* team-repository cache.
NextTeamRead ==
    \/ \E t \in Threads, m \in Teams, r \in Repos : resourceGithubTeamRepositoryRead_Call(t, m, r)
    \/ \E t \in Threads : resourceGithubTeamRepositoryRead_GetRepo(t)
    \/ \E t \in Threads : resourceGithubTeamRepositoryRead_RepoChecked(t)
    \/ \E t \in Threads : resourceGithubTeamRepositoryRead_CacheLookup(t)
    \/ \E t \in Threads : resourceGithubTeamRepositoryRead_V3(t)
    \/ \E t \in Threads : resourceGithubTeamRepositoryRead_V3Fails(t)
    \/ \E t \in Threads : resourceGithubTeamRepositoryRead_Once(t)
    \/ \E t \in Threads : resourceGithubTeamRepositoryRead_Inner(t)
    \/ \E t \in Threads : resourceGithubTeamRepositoryRead_InnerMake(t)
    \/ \E t \in Threads : resourceGithubTeamRepositoryRead_Put(t)
    \/ \E t \in Threads : resourceGithubTeamRepositoryRead_SetState(t)
    \/ \E t \in Threads : loadAllReposV4_Once(t)
    \/ \E t \in Threads : loadAllReposV4_Make(t)
    \/ \E t \in Threads : loadAllReposV4_Query(t)
    \/ \E t \in Threads : loadAllReposV4_QueryFails(t)
    \/ \E t \in Threads : loadAllReposV4_Insert(t)
    \/ \E t \in Threads : GetRepoFromCache_Lookup(t)
    \/ \E t \in Threads : GetRepoFromCache_PointQuery(t)
    \/ \E t \in Threads : GetRepoFromCache_PointQueryFails(t)
    \/ \E t \in Threads : GetRepoFromCache_PointInsert(t)
    \/ \E t \in Threads, m \in Teams, r \in Repos : GetTeamRepoFromCache_Check(t, m, r)
    \/ \E t \in Threads : loadAllTeamReposV4_Once(t)
    \/ \E t \in Threads : loadAllTeamReposV4_Loaded(t)
    \/ \E t \in Threads : loadAllTeamReposV4_Mark(t)
    \/ \E t \in Threads : loadAllTeamReposV4_Query(t)
    \/ \E t \in Threads : loadAllTeamReposV4_QueryFails(t)
    \/ \E t \in Threads : loadAllTeamReposV4_Insert(t)
    \/ \E t \in Threads : GetTeamRepoFromCache_Lookup(t)
    \/ FatalConcurrentMapAccess

SpecTeamRead == InitTeam /\ [][NextTeamRead]_vars

\* The Update handler of the team-repository resource, which ends in Read.
NextTeamUpdate ==
    \/ \E t \in Threads, m \in Teams, r \in Repos, p \in Perms :
           resourceGithubTeamRepositoryUpdate_Call(t, m, r, p)
    \/ \E t \in Threads : resourceGithubTeamRepositoryUpdate_RepoGet(t)
    \/ \E t \in Threads : resourceGithubTeamRepositoryUpdate_RepoGetFails(t)
    \/ \E t \in Threads : resourceGithubTeamRepositoryUpdate_Add(t)
    \/ \E t \in Threads : resourceGithubTeamRepositoryUpdate_AddFails(t)
    \/ \E t \in Threads : resourceGithubTeamRepositoryRead_GetRepo(t)
    \/ \E t \in Threads : resourceGithubTeamRepositoryRead_RepoChecked(t)
    \/ \E t \in Threads : resourceGithubTeamRepositoryRead_CacheLookup(t)
    \/ \E t \in Threads : resourceGithubTeamRepositoryRead_V3(t)
    \/ \E t \in Threads : resourceGithubTeamRepositoryRead_V3Fails(t)
    \/ \E t \in Threads : resourceGithubTeamRepositoryRead_Once(t)
    \/ \E t \in Threads : resourceGithubTeamRepositoryRead_Inner(t)
    \/ \E t \in Threads : resourceGithubTeamRepositoryRead_InnerMake(t)
    \/ \E t \in Threads : resourceGithubTeamRepositoryRead_Put(t)
    \/ \E t \in Threads : resourceGithubTeamRepositoryRead_SetState(t)
    \/ \E t \in Threads : loadAllReposV4_Once(t)
    \/ \E t \in Threads : loadAllReposV4_Make(t)
    \/ \E t \in Threads : loadAllReposV4_Query(t)
    \/ \E t \in Threads : loadAllReposV4_QueryFails(t)
    \/ \E t \in Threads : loadAllReposV4_Insert(t)
    \/ \E t \in Threads : GetRepoFromCache_Lookup(t)
    \/ \E t \in Threads : GetRepoFromCache_PointQuery(t)
    \/ \E t \in Threads : GetRepoFromCache_PointQueryFails(t)
    \/ \E t \in Threads : GetRepoFromCache_PointInsert(t)
    \/ FatalConcurrentMapAccess

SpecTeamUpdate == InitTeam /\ [][NextTeamUpdate]_vars

\* The Delete handler of the team-repository resource, next to the Gets of
\* the team-repository cache and a rename of a repository.
NextTeamDelete ==
    \/ \E r \in Repos : RemoteRenameRepo(r)
    \/ \E t \in Threads, m \in Teams, r \in Repos : resourceGithubTeamRepositoryDelete_Call(t, m, r)
    \/ \E t \in Threads : resourceGithubTeamRepositoryDelete_RepoGet(t)
    \/ \E t \in Threads : resourceGithubTeamRepositoryDelete_RepoGetFails(t)
    \/ \E t \in Threads : resourceGithubTeamRepositoryDelete_Remove(t)
    \/ \E t \in Threads : resourceGithubTeamRepositoryDelete_RemoveFails(t)
    \/ \E t \in Threads : resourceGithubTeamRepositoryDelete_RepoGet2(t)
    \/ \E t \in Threads : resourceGithubTeamRepositoryDelete_RepoGet2Fails(t)
    \/ \E t \in Threads : resourceGithubTeamRepositoryDelete_Remove2(t)
    \/ \E t \in Threads : resourceGithubTeamRepositoryDelete_Remove2Fails(t)
    \/ \E t \in Threads : resourceGithubTeamRepositoryDelete_Evict(t)
    \/ \E t \in Threads, m \in Teams, r \in Repos : GetTeamRepoFromCache_Check(t, m, r)
    \/ \E t \in Threads : loadAllTeamReposV4_Once(t)
    \/ \E t \in Threads : loadAllTeamReposV4_Loaded(t)
    \/ \E t \in Threads : loadAllTeamReposV4_Mark(t)
    \/ \E t \in Threads : loadAllTeamReposV4_Query(t)
    \/ \E t \in Threads : loadAllTeamReposV4_QueryFails(t)
    \/ \E t \in Threads : loadAllTeamReposV4_Insert(t)
    \/ \E t \in Threads : GetTeamRepoFromCache_Lookup(t)
    \/ FatalConcurrentMapAccess

SpecTeamDelete == InitTeam /\ [][NextTeamDelete]_vars

\* The Delete handler of the environment resource, next to the Gets of the
\* environment cache.
NextEnvDelete ==
    \/ \E t \in Threads, r \in Repos, e \in Envs :
           resourceGithubRepositoryEnvironmentDelete_Call(t, r, e)
    \/ \E t \in Threads : resourceGithubRepositoryEnvironmentDelete_RepoGet(t)
    \/ \E t \in Threads : resourceGithubRepositoryEnvironmentDelete_RepoGetFails(t)
    \/ \E t \in Threads : resourceGithubRepositoryEnvironmentDelete_Delete(t)
    \/ \E t \in Threads : resourceGithubRepositoryEnvironmentDelete_DeleteFails(t)
    \/ \E t \in Threads : resourceGithubRepositoryEnvironmentDelete_Evict(t)
    \/ \E t \in Threads, r \in Repos, e \in Envs : GetEnvironmentFromCache_Check(t, r, e)
    \/ \E t \in Threads : loadAllEnvironmentsV4_Once(t)
    \/ \E t \in Threads : loadAllEnvironmentsV4_Loaded(t)
    \/ \E t \in Threads : loadAllEnvironmentsV4_Mark(t)
    \/ \E t \in Threads : loadAllEnvironmentsV4_Query(t)
    \/ \E t \in Threads : loadAllEnvironmentsV4_QueryFails(t)
    \/ \E t \in Threads : loadAllEnvironmentsV4_Insert(t)
    \/ \E t \in Threads : GetEnvironmentFromCache_Lookup(t)
    \/ FatalConcurrentMapAccess

SpecEnvDelete == InitEnv /\ [][NextEnvDelete]_vars

\* The Read handler of the environment resource over the repository cache
\* and the environment cache.
NextEnvRead ==
    \/ \E t \in Threads, r \in Repos, e \in Envs :
           resourceGithubRepositoryEnvironmentRead_Call(t, r, e)
    \/ \E t \in Threads : resourceGithubRepositoryEnvironmentRead_GetRepo(t)
    \/ \E t \in Threads : resourceGithubRepositoryEnvironmentRead_RepoChecked(t)
    \/ \E t \in Threads : resourceGithubRepositoryEnvironmentRead_GetEnv(t)
    \/ \E t \in Threads : resourceGithubRepositoryEnvironmentRead_EnvChecked(t)
    \/ \E t \in Threads : resourceGithubRepositoryEnvironmentRead_V3(t)
    \/ \E t \in Threads : resourceGithubRepositoryEnvironmentRead_V3Fails(t)
    \/ \E t \in Threads : resourceGithubRepositoryEnvironmentRead_Outer(t)
    \/ \E t \in Threads : resourceGithubRepositoryEnvironmentRead_Inner(t)
    \/ \E t \in Threads : resourceGithubRepositoryEnvironmentRead_Put(t)
    \/ \E t \in Threads : resourceGithubRepositoryEnvironmentRead_SetState(t)
    \/ \E t \in Threads : loadAllReposV4_Once(t)
    \/ \E t \in Threads : loadAllReposV4_Make(t)
    \/ \E t \in Threads : loadAllReposV4_Query(t)
    \/ \E t \in Threads : loadAllReposV4_QueryFails(t)
    \/ \E t \in Threads : loadAllReposV4_Insert(t)
    \/ \E t \in Threads : GetRepoFromCache_Lookup(t)
    \/ \E t \in Threads : GetRepoFromCache_PointQuery(t)
    \/ \E t \in Threads : GetRepoFromCache_PointQueryFails(t)
    \/ \E t \in Threads : GetRepoFromCache_PointInsert(t)
    \/ \E t \in Threads : loadAllEnvironmentsV4_Once(t)
    \/ \E t \in Threads : loadAllEnvironmentsV4_Loaded(t)
    \/ \E t \in Threads : loadAllEnvironmentsV4_Mark(t)
    \/ \E t \in Threads : loadAllEnvironmentsV4_Query(t)
    \/ \E t \in Threads : loadAllEnvironmentsV4_QueryFails(t)
    \/ \E t \in Threads : loadAllEnvironmentsV4_Insert(t)
    \/ \E t \in Threads : GetEnvironmentFromCache_Lookup(t)
    \/ FatalConcurrentMapAccess

SpecEnvRead == InitEnv /\ [][NextEnvRead]_vars

\* ------------------------------------------------------------------ properties
\* goroutine t has returned from a call of op
Done(t, op) == pc[t] = "done" /\ loc[t].op = op

\* C1: a bulk load that failed leaves its scope Unloaded, so that the next
\* Get of the scope loads it again: once a load of a repository's
\* environments has failed and no other load of them is running, the guard of
\* GetEnvironmentFromCache (o.envCache[repoName] == nil) finds the scope unloaded.
C1_FailedLoadLeavesScopeUnloaded ==
    \A r \in Repos :
        (r \in loadFailed.env /\ ~EnvLoadInFlight(r)) => Sub(envCache, r).nil

\* C2: whatever the interleaving of the concurrent Get calls, at most one
\* list-query sequence is issued for the environments of one repository.
C2_OneListSequencePerScope ==
    \A r \in Repos : listSeqs.env[r] <= 1

\* C3: in the repository cache at most one list-query sequence is ever
\* issued, and exactly one has been issued once the Once has returned.
C3_OneRepoListSequence ==
    /\ listSeqs.repo <= 1
    /\ repoCacheOnce = "done" => listSeqs.repo = 1
    /\ \A t \in Threads : loc[t].nList > 0 => listSeqs.repo = 1

\* C3's case: two goroutines called GetRepoFromCache on the cold cache and
\* both have returned.
C3_Witness ==
    /\ \A t \in Threads : Done(t, "GetRepoFromCache") /\ ~loc[t].loadedAtCall
                          /\ ~loc[t].hitAtCall /\ loc[t].ret = "entry"
    /\ \E t \in Threads : loc[t].nList > 0
    /\ \E t \in Threads : loc[t].nList = 0

\* C4: a Get never performs its lookup in a scope whose bulk load has started
\* and not finished.
C4_GetWaitsForLoad ==
    \A t \in Threads :
        Done(t, "GetEnvironmentFromCache") => ~loc[t].racedLoad

\* C5: loads of different scopes of the environment-secret cache do not
\* disturb each other: when the only calls so far are Gets of different
\* scopes, one per goroutine, and a Get that loaded its scope has returned,
\* the scope is still there and holds the entry the Get returned.
C5_ScopesDoNotDisturb ==
    \A t \in Threads :
        (/\ Done(t, "GetEnvSecretFromCache") /\ loc[t].nList > 0 /\ loc[t].ret # "loaderr"
         /\ Cardinality({u \in Threads : loc[u].op # "none"}) = calls
         /\ \A u \in Threads \ {t} :
                loc[u].op # "none" => <<loc[u].repo, loc[u].env>> # <<loc[t].repo, loc[t].env>>)
            => /\ ~SecretScope(loc[t].repo, loc[t].env).nil
               /\ loc[t].ret = "entry" => Has(SecretScope(loc[t].repo, loc[t].env), loc[t].secret)

\* C6: no state has two goroutines accessing one cache map with one of them
\* writing, and no call ends in a crash of the process.
C6_NoDataRace == ~DataRace /\ ~crashed

C8_FallbackFetch ==
    \A t \in Threads :
        (Done(t, "GetEnvironmentFromCache") /\ loc[t].loadedAtCall
             /\ ~loc[t].racedLoad /\ loc[t].repo \notin loadFailed.env
             /\ loc[t].missed /\ loc[t].existed)
            => /\ loc[t].ret = "entry"
               /\ loc[t].nList = 0
               /\ Has(Sub(envCache, loc[t].repo), loc[t].env)

\* C9: a not-found is not remembered: a Get that misses (in a scope no load
\* is running on or has failed on) an environment the remote lacks returns not-found, and a
\* Get that misses an environment the remote has (it was created since)
\* queries the remote for it and returns it.
C9_NoNegativeCaching ==
    \A t \in Threads :
        (/\ Done(t, "GetEnvironmentFromCache") /\ loc[t].missed
         /\ ~loc[t].racedLoad /\ loc[t].repo \notin loadFailed.env)
            => IF loc[t].existed
               THEN loc[t].nPoint >= 1 /\ loc[t].ret = "entry"
               ELSE loc[t].ret = "notfound"

\* C10: a Get called after an eviction of its key has returned never returns
\* data the remote sent before the eviction.
C10_NoStaleEntryAfterEvict ==
    \A t \in Threads :
        (Done(t, "GetTeamRepoFromCache") /\ loc[t].ret = "entry")
            => loc[t].val.at >= loc[t].lastEvict

\* C11: evicting a key that is absent, or a key of a scope that was never
\* loaded, is a no-op: RemoveTeamRepoFromCache returns without an error and
\* leaves the whole team-repository cache as it was, every other entry and
\* the loaded state of every scope included.
C11_EvictAbsentIsNoOp ==
    [][\A t \in Threads :
          (/\ At(t, "team_evict") /\ pc'[t] = "done"
           /\ ~Has(Sub(teamRepoCache, loc[t].team), loc[t].repo))
              => /\ teamRepoCache' = teamRepoCache
                 /\ teamRepoCacheOnce' = teamRepoCacheOnce
                 /\ loc'[t].ret = "evicted"
                 /\ crashed' = crashed]_vars

\* C11's case: an eviction in a never-loaded scope has returned, and the Get
\* of the same key called after it found the scope unloaded and bulk-loaded it.
C11_Witness ==
    \E t, u \in Threads :
        /\ t # u
        /\ Done(t, "RemoveTeamRepoFromCache")
        /\ Done(u, "GetTeamRepoFromCache")
        /\ loc[u].team = loc[t].team /\ loc[u].repo = loc[t].repo
        /\ loc[u].lastEvict > 0 /\ ~loc[u].loadedAtCall
        /\ loc[u].nList > 0 /\ loc[u].ret = "entry"
        /\ listSeqs.team[loc[u].team] = 1


\* goroutine t has returned from handler h
HandlerDone(t, h) == pc[t] = "done" /\ loc[t].handler = h /\ loc[t].hret # "none"

\* C12: when the Delete handler of the team-repository resource returns after
\* the remote deletion succeeded, the cache holds no entry for the deleted
\* key, on every return path, the rename path taken after a 404 included.
\* Stated for a handler that ran with no other goroutine started.
C12_DeleteLeavesNoEntry ==
    \A t \in Threads :
        (/\ HandlerDone(t, "TeamDelete") /\ loc[t].deleted
         /\ \A u \in Threads \ {t} : pc[u] = "idle")
            => ~Has(Sub(teamRepoCache, loc[t].team), loc[t].repo)

\* C13: a Delete handler that runs while a bulk load of the same scope is in
\* flight does not let the deleted state reappear: a Get of the deleted key
\* that is called after the remote deletion and its eviction have returned,
\* and that looks up after the load has finished, returns no entry.
C13_DeletedStateDoesNotReappear ==
    \A t \in Threads :
        (/\ Done(t, "GetEnvironmentFromCache")
         /\ loc[t].lastEvict > 0 /\ ~loc[t].racedLoad
         /\ loc[t].env \notin remoteEnvs[loc[t].repo])
            => loc[t].ret # "entry"

\* C14: a Get on a scope for which no list query has ever been issued runs
\* the bulk load before its lookup, also after the Read handler of the
\* team-repository resource has inserted a fallback entry for the team: a
\* GetTeamRepoFromCache that has returned without a failure of its own load
\* leaves at least one list-query sequence issued for its team.
C14_GetLoadsUnlistedScope ==
    \A t \in Threads :
        (/\ Done(t, "GetTeamRepoFromCache") /\ loc[t].handler = "none"
         /\ loc[t].ret # "loaderr"
         /\ \A u \in Threads \ {t} : pc[u] = "idle")
            => listSeqs.team[loc[t].team] >= 1

\* C19: in the Read handler a failure of the repository cache query that is
\* not a not-found is returned as the failure of the operation and leaves
\* the resource in state; only a missing repository clears the ID.
C19_ReadReturnsRepoFailure ==
    \A t \in Threads :
        (/\ HandlerDone(t, "TeamRead")
         /\ loc[t].repoRet \in {"loaderr", "transient"})
            => loc[t].hret = "err" /\ loc[t].id

\* C20: after a successful Update of a team-repository permission the Read
\* that the handler runs yields the updated remote value: when the handler
\* has returned nil with the resource in state, and the remote still has the
\* permission it wrote, neither the Terraform state nor the cache entry of
\* the key holds another permission.
C20_UpdateReadsBackNewValue ==
    \A t \in Threads :
        (/\ HandlerDone(t, "TeamUpdate")
         /\ loc[t].updated /\ loc[t].hret = "ok" /\ loc[t].id
         /\ remoteTeamPerm[<<loc[t].team, loc[t].repo>>] = loc[t].perm
         /\ \A u \in Threads \ {t} : pc[u] = "idle")
            => /\ loc[t].statePerm = loc[t].perm
               /\ Has(Sub(teamRepoCache, loc[t].team), loc[t].repo)
                     => Sub(teamRepoCache, loc[t].team).kv[loc[t].repo].Permission = loc[t].perm

\* C15: loading one scope leaves the loaded state of every other scope
\* unchanged: while the only calls so far are Gets of pairwise different
\* environment-secret scopes, one per goroutine, a scope whose bulk load has
\* succeeded is still marked loaded.
C15_LoadLeavesOtherScopes ==
    (/\ Cardinality({u \in Threads : loc[u].op # "none"}) = calls
     /\ \A u, v \in Threads :
            (u # v /\ loc[u].op # "none" /\ loc[v].op # "none")
                => <<loc[u].repo, loc[u].env>> # <<loc[v].repo, loc[v].env>>)
        => \A s \in loadSucceeded.secret : ~SecretScope(s[1], s[2]).nil

\* C16: once the bulk load of a scope has succeeded, a later Get of the
\* scope issues no list query, and no remote query at all when it hits.
\* Stated for a Get of an environment-secret scope that no other goroutine
\* is calling for.
C16_LoadedScopeIssuesNoListQuery ==
    \A t \in Threads :
        (/\ Done(t, "GetEnvSecretFromCache") /\ loc[t].okAtCall
         /\ \A u \in Threads \ {t} :
                <<loc[u].repo, loc[u].env>> # <<loc[t].repo, loc[t].env>>)
            => /\ loc[t].nList = 0
               /\ loc[t].hitAtCall => loc[t].nPoint = 0

\* C17: a successful bulk load leaves its scope holding every record of all
\* its pages: at the return of a load that succeeded (kept is taken at the
\* load's last insert), every key the load received is in the scope.
C17_LoadKeepsEveryRecord ==
    \A t \in Threads :
        (At(t, "env_lookup") /\ loc[t].nList > 0) => loc[t].kept

\* C18: when the list query of page k fails, the load returns the error and
\* the records of the pages before k stay in the cache: at the return of the
\* failed load every key it had received is in the scope.
C18_FailedLoadKeepsEarlierPages ==
    \A t \in Threads :
        (Done(t, "GetEnvironmentFromCache") /\ loc[t].ret = "loaderr") => loc[t].kept

\* C21: every bulk load terminates, and no Get blocks forever on another
\* caller's load of the repository cache: a goroutine inside GetRepoFromCache
\* (waiting at the Once, loading, or past the load) returns from it.
C21_LoadTerminates ==
    \A t \in Threads :
        (pc[t] \notin {"idle", "done"}) ~> (pc[t] = "done")

\* C24: when the bulk load of the repositories fails, every GetRepoFromCache
\* that waited on that load returns the load error, and none of them goes on
\* to the lookup or to a point query.  (waited: the call entered
\* loadAllReposV4 and its Once.Do did not run the body.)
C24_WaitersReturnLoadError ==
    \A t \in Threads :
        (loc[t].op = "GetRepoFromCache" /\ loc[t].waited /\ loadFailed.repo)
            => /\ pc[t] \notin {"repo_lookup", "repo_point", "repo_pinsert"}
               /\ pc[t] = "done" => loc[t].ret = "loaderr"

\* C25: when the remote deletion of the team-repository Delete handler fails,
\* the handler returns the error and leaves the cache entry of its key
\* unchanged: a handler that found the entry cached, ran with no other
\* goroutine started and returned without having deleted the binding has
\* returned an error and the entry is still cached.
C25_FailedDeleteKeepsEntry ==
    \A t \in Threads :
        (/\ HandlerDone(t, "TeamDelete")
         /\ loc[t].derr /\ ~loc[t].deleted /\ loc[t].hitAtCall
         /\ \A u \in Threads \ {t} : pc[u] = "idle")
            => /\ loc[t].hret = "err"
               /\ Has(Sub(teamRepoCache, loc[t].team), loc[t].repo)

\* C23: the environment-secret cache has no eviction: a key that is present
\* in it is present in every later state.
C23_SecretKeysStay ==
    [][\A r \in Repos, e \in Envs, x \in Secrets :
          Has(SecretScope(r, e), x) => Has(SecretScope(r, e), x)']_vars

\* C22: an environment entry inserted by the fallback fetch of the Read
\* handler carries wait timer 0 whatever the remote has, and no later
\* operation replaces it with the values of the bulk query: with no eviction,
\* an entry that has wait timer 0 is there with wait timer 0 in the next state.
C22_DefaultedEntryStays ==
    [][\A r \in Repos, e \in Envs :
          (Has(Sub(envCache, r), e) /\ Sub(envCache, r).kv[e].WaitTimer = 0)
              => (Has(Sub(envCache, r), e) /\ Sub(envCache, r).kv[e].WaitTimer = 0)']_vars
====
